---- MODULE Spec2Model ----
(***************************************************************************)
(* Model of the markup converters of tkt.                                  *)
(*                                                                         *)
(* A Go string is modelled as the sequence of its bytes; every byte is a   *)
(* one-character TLA+ string, except the two bytes "U1" "U2", which are    *)
(* the UTF-8 encoding of one two-byte rune, written "U" in rune sequences, *)
(* and "BT", which is the backtick byte.                                   *)
(* The converters are pure functions and are modelled as operators that    *)
(* compute what the Go code computes, pass by pass.  The state machine     *)
(* draws an input text and calls the converters on it.                     *)
(***************************************************************************)
EXTENDS Integers, Sequences, FiniteSets

VARIABLES input, calls, localDir, cacheDir, jira, pending, outcome, runs, rmModel

\* the ticket files, the issues of the JIRA server, the push run under way
\* and the list of rm
files == <<localDir, cacheDir, jira, pending, outcome, runs, rmModel>>

vars == <<input, calls, localDir, cacheDir, jira, pending, outcome, runs, rmModel>>

(***************************************************************************)
(* strings package                                                         *)
(***************************************************************************)

\* unicode.IsSpace restricted to the bytes of the model
IsSpace(c) == c \in {" ", "\t", "\n", "\r", "\f"}

\* the regexp class \s
SpaceClass == {" ", "\t", "\n", "\r", "\f"}

ReSpace(c) == c \in SpaceClass

\* the regexp class \d
DigitClass == {"0", "1", "2", "3", "4", "5", "6", "7", "8", "9"}

ReDigit(c) == c \in DigitClass

\* the regexp class \w
WordClass ==
    DigitClass \cup {"_"}
    \cup {"a", "b", "c", "d", "e", "f", "g", "h", "i", "j", "k", "l", "m", "n", "o", "p", "q", "r", "s", "t", "u", "v", "w", "x", "y", "z"}
    \cup {"A", "B", "C", "D", "E", "F", "G", "H", "I", "J", "K", "L", "M", "N", "O", "P", "Q", "R", "S", "T", "U", "V", "W", "X", "Y", "Z"}

ReWord(c) == c \in WordClass

Min(S) == CHOOSE x \in S : \A y \in S : x <= y

Max(S) == CHOOSE x \in S : \A y \in S : x >= y

\* s[i:] of Go for the 1-based position i
From(s, i) == SubSeq(s, i, Len(s))

\* strings.HasPrefix(s[i-1:], p)
HasPrefixAt(s, p, i) ==
    /\ i >= 1
    /\ i + Len(p) - 1 <= Len(s)
    /\ SubSeq(s, i, i + Len(p) - 1) = p

HasPrefix(s, p) == HasPrefixAt(s, p, 1)

HasSuffix(s, p) == Len(p) <= Len(s) /\ SubSeq(s, Len(s) - Len(p) + 1, Len(s)) = p

\* strings.Index(s[i-1:], p) as a 1-based position of s, 0 when absent
IndexFrom(s, p, i) ==
    LET hits == {j \in i..Len(s) : HasPrefixAt(s, p, j)}
    IN  IF hits = {} THEN 0 ELSE Min(hits)

Contains(s, p) == IndexFrom(s, p, 1) # 0

TrimPrefix(s, p) == IF HasPrefix(s, p) THEN From(s, Len(p) + 1) ELSE s

TrimSpace(s) ==
    LET keep == {j \in 1..Len(s) : ~IsSpace(s[j])}
    IN  IF keep = {} THEN <<>> ELSE SubSeq(s, Min(keep), Max(keep))

\* strings.Trim(s, cutset) for a one-byte cutset
Trim(s, c) ==
    LET keep == {j \in 1..Len(s) : s[j] # c}
    IN  IF keep = {} THEN <<>> ELSE SubSeq(s, Min(keep), Max(keep))

RECURSIVE ReplaceAll(_, _, _)
ReplaceAll(s, old, new) ==
    LET j == IndexFrom(s, old, 1)
    IN  IF j = 0 THEN s
        ELSE SubSeq(s, 1, j - 1) \o new \o ReplaceAll(From(s, j + Len(old)), old, new)

\* strings.Split(s, sep) for a non-empty sep: a sequence of strings
RECURSIVE Split(_, _)
Split(s, sep) ==
    LET j == IndexFrom(s, sep, 1)
    IN  IF j = 0 THEN <<s>>
        ELSE <<SubSeq(s, 1, j - 1)>> \o Split(From(s, j + Len(sep)), sep)

RECURSIVE Join(_, _)
Join(parts, sep) ==
    IF Len(parts) = 0 THEN <<>>
    ELSE IF Len(parts) = 1 THEN parts[1]
    ELSE parts[1] \o sep \o Join(Tail(parts), sep)

NL == <<"\n">>

\* (?m)^ at position i
LineStart(s, i) == i = 1 \/ (i >= 2 /\ i <= Len(s) + 1 /\ s[i - 1] = "\n")

\* (?m)$ at position i (i is the position of the next byte)
LineEnd(s, i) == i = Len(s) + 1 \/ (i <= Len(s) /\ s[i] = "\n")

\* the end of the longest run of bytes from i on that are outside stops;
\* i - 1 when the run is empty
RunEnd(s, i, stops) ==
    LET bad == {j \in i..Len(s) : s[j] \in stops}
    IN  IF bad = {} THEN Len(s) ELSE Min(bad) - 1

NoMatch == [ok |-> FALSE, end |-> 0, rep |-> <<>>]

Match(e, r) == [ok |-> TRUE, end |-> e, rep |-> r]


(***************************************************************************)
(* regexp.ReplaceAllString / ReplaceAllStringFunc: the leftmost            *)
(* non-overlapping matches, each replaced.  No pattern of the converters   *)
(* matches the empty string.  A pattern is a record whose field re names   *)
(* the regular expression; MatchAt gives the match that starts at i.       *)
(***************************************************************************)

Fence == <<"BT", "BT", "BT">>

CodeOpen == <<"{", "c", "o", "d", "e">>

CodeClose == <<"{", "c", "o", "d", "e", "}">>

NoFormatTag == <<"{", "n", "o", "f", "o", "r", "m", "a", "t", "}">>

PanelOpen == <<"{", "p", "a", "n", "e", "l">>

PanelClose == <<"{", "p", "a", "n", "e", "l", "}">>

PanelTitle == <<":", "t", "i", "t", "l", "e", "=">>

QuoteTag == <<"{", "q", "u", "o", "t", "e", "}">>

\* `(?s)\{code(?::([^}]*))?\}(.*?)\{code\}` and the function of lines 70-81
MatchCodeBlock(s, i) ==
    IF ~HasPrefixAt(s, CodeOpen, i) THEN NoMatch
    ELSE
      LET p == i + Len(CodeOpen)
          hasLang == p <= Len(s) /\ s[p] = ":"
          langEnd == RunEnd(s, p + 1, {"}"})
          braceOk == IF hasLang THEN langEnd + 1 <= Len(s)
                     ELSE p <= Len(s) /\ s[p] = "}"
          bodyStart == IF hasLang THEN langEnd + 2 ELSE p + 1
          close == IndexFrom(s, CodeClose, bodyStart)
          language == IF hasLang THEN SubSeq(s, p + 1, langEnd) ELSE <<>>
          code == TrimSpace(SubSeq(s, bodyStart, close - 1))
      IN  IF braceOk /\ close # 0
          THEN Match(close + Len(CodeClose) - 1, Fence \o language \o NL \o code \o NL \o Fence)
          ELSE NoMatch

\* `(?s)\{noformat\}(.*?)\{noformat\}` replaced by "```\n$1\n```"
MatchNoFormat(s, i) ==
    IF ~HasPrefixAt(s, NoFormatTag, i) THEN NoMatch
    ELSE
      LET bodyStart == i + Len(NoFormatTag)
          close == IndexFrom(s, NoFormatTag, bodyStart)
      IN  IF close # 0
          THEN Match(close + Len(NoFormatTag) - 1,
                     Fence \o NL \o SubSeq(s, bodyStart, close - 1) \o NL \o Fence)
          ELSE NoMatch

\* `(?m)^` + QuoteMeta(tag) + `\s+(.+)$` replaced by md + " $1": \s+ is
\* greedy and gives back bytes until one byte that is not a line break
\* follows it; (.+) then runs to the end of that line
MatchLineTag(s, i, tag, md) ==
    IF ~(LineStart(s, i) /\ HasPrefixAt(s, tag, i)) THEN NoMatch
    ELSE
      LET w == i + Len(tag)
          nonws == {j \in w..Len(s) : ~ReSpace(s[j])}
          wsEnd == IF nonws = {} THEN Len(s) ELSE Min(nonws) - 1
          starts == {t \in (w + 1)..(wsEnd + 1) : t <= Len(s) /\ s[t] # "\n"}
      IN  IF starts = {} THEN NoMatch
          ELSE LET t == Max(starts)
                   e == RunEnd(s, t, {"\n"})
               IN  Match(e, md \o <<" ">> \o SubSeq(s, t, e))

\* the inner expression `(.*?)\*([^*\n]+)\*(.*)` (or the one with -) on a
\* match m of the outer one; d is the delimiter and dd its replacement
InnerParts(m, d, dd) ==
    LET opens == {a \in 1..Len(m) :
                     /\ m[a] = d
                     /\ RunEnd(m, a + 1, {d, "\n"}) >= a + 1
                     /\ RunEnd(m, a + 1, {d, "\n"}) + 1 <= Len(m)
                     /\ m[RunEnd(m, a + 1, {d, "\n"}) + 1] = d}
    IN  IF opens = {} THEN m
        ELSE LET a == Min(opens)
                 ce == RunEnd(m, a + 1, {d, "\n"})
                 rest == RunEnd(m, ce + 2, {"\n"})
             IN  SubSeq(m, 1, a - 1) \o dd \o SubSeq(m, a + 1, ce) \o dd
                   \o SubSeq(m, ce + 2, rest) \o From(m, rest + 1)

\* `(?m)(?:^|[^*\n])\*([^*\n]+)\*(?:[^*\n]|$)` (or the one with -): the
\* match takes the byte before and the byte after the span when they exist
MatchGuarded(s, i, d, dd) ==
    LET j == IF s[i] = d /\ LineStart(s, i) THEN i
             ELSE IF s[i] \notin {d, "\n"} /\ i + 1 <= Len(s) /\ s[i + 1] = d THEN i + 1
             ELSE 0
        ce == RunEnd(s, j + 1, {d, "\n"})
        e == ce + 1
    IN  IF j = 0 \/ ce < j + 1 \/ e > Len(s) THEN NoMatch
        ELSE IF s[e] # d THEN NoMatch
        ELSE IF e + 1 <= Len(s) /\ s[e + 1] \notin {d, "\n"}
             THEN Match(e + 1, InnerParts(SubSeq(s, i, e + 1), d, dd))
        ELSE IF LineEnd(s, e + 1)
             THEN Match(e, InnerParts(SubSeq(s, i, e), d, dd))
        ELSE NoMatch

\* open ([^stops]+) close, replaced by l \o $1 \o r; keep = FALSE is a
\* template whose reference names no group and expands to nothing
MatchSpan(s, i, open, stops, close, l, r, keep) ==
    LET cs == i + Len(open)
        ce == RunEnd(s, cs, stops)
    IN  IF HasPrefixAt(s, open, i) /\ ce >= cs /\ HasPrefixAt(s, close, ce + 1)
        THEN Match(ce + Len(close), l \o (IF keep THEN SubSeq(s, cs, ce) ELSE <<>>) \o r)
        ELSE NoMatch

\* `(?s)\{panel(?::title=([^}]*))?\}(.*?)\{panel\}` and the function of lines 176-187
MatchPanel(s, i) ==
    IF ~HasPrefixAt(s, PanelOpen, i) THEN NoMatch
    ELSE
      LET p == i + Len(PanelOpen)
          hasTitle == HasPrefixAt(s, PanelTitle, p)
          titleEnd == RunEnd(s, p + Len(PanelTitle), {"}"})
          braceOk == IF hasTitle THEN titleEnd + 1 <= Len(s)
                     ELSE p <= Len(s) /\ s[p] = "}"
          bodyStart == IF hasTitle THEN titleEnd + 2 ELSE p + 1
          close == IndexFrom(s, PanelClose, bodyStart)
          t == IF hasTitle THEN SubSeq(s, p + Len(PanelTitle), titleEnd) ELSE <<>>
          title == IF t # <<>> THEN <<"#", "#", "#", " ">> \o t \o NL \o NL ELSE <<>>
          body == TrimSpace(SubSeq(s, bodyStart, close - 1))
      IN  IF braceOk /\ close # 0
          THEN Match(close + Len(PanelClose) - 1, title \o body \o NL \o NL \o <<"-", "-", "-">>)
          ELSE NoMatch

RECURSIVE PrefixEach(_, _)
PrefixEach(lines, p) ==
    IF Len(lines) = 0 THEN <<>>
    ELSE <<p \o lines[1]>> \o PrefixEach(Tail(lines), p)

\* `(?s)\{quote\}(.*?)\{quote\}` and the function of lines 196-207
MatchQuote(s, i) ==
    IF ~HasPrefixAt(s, QuoteTag, i) THEN NoMatch
    ELSE
      LET bodyStart == i + Len(QuoteTag)
          close == IndexFrom(s, QuoteTag, bodyStart)
          lines == Split(TrimSpace(SubSeq(s, bodyStart, close - 1)), NL)
      IN  IF close # 0
          THEN Match(close + Len(QuoteTag) - 1, Join(PrefixEach(lines, <<">", " ">>), NL))
          ELSE NoMatch

\* `\[([^|\]]+)\|([^\]]+)\]` replaced by "[$1]($2)"
MatchLink(s, i) ==
    LET e1 == RunEnd(s, i + 1, {"|", "]"})
        e2 == RunEnd(s, e1 + 2, {"]"})
    IN  IF /\ s[i] = "["
           /\ e1 >= i + 1 /\ e1 + 1 <= Len(s) /\ s[e1 + 1] = "|"
           /\ e2 >= e1 + 2 /\ e2 + 1 <= Len(s)
        THEN Match(e2 + 1, <<"[">> \o SubSeq(s, i + 1, e1) \o <<"]", "(">>
                             \o SubSeq(s, e1 + 2, e2) \o <<")">>)
        ELSE NoMatch

\* `\[([^|\]]+)\]` replaced by "[$1]($1)"
MatchSimpleLink(s, i) ==
    LET e1 == RunEnd(s, i + 1, {"|", "]"})
    IN  IF s[i] = "[" /\ e1 >= i + 1 /\ e1 + 1 <= Len(s) /\ s[e1 + 1] = "]"
        THEN Match(e1 + 1, <<"[">> \o SubSeq(s, i + 1, e1) \o <<"]", "(">>
                             \o SubSeq(s, i + 1, e1) \o <<")">>)
        ELSE NoMatch

Hashes(n) == [k \in 1..n |-> "#"]

DigitOf(n) == <<"0", "1", "2", "3", "4", "5", "6", "7", "8", "9">>[n + 1]

MatchAt(pat, s, i) ==
    CASE pat.re = "codeBlockRe" -> MatchCodeBlock(s, i)
      [] pat.re = "noFormatRe" -> MatchNoFormat(s, i)
      [] pat.re = "heading" -> MatchLineTag(s, i, <<"h", DigitOf(pat.n), ".">>, Hashes(pat.n))
      [] pat.re = "boldRe" -> MatchGuarded(s, i, "*", <<"*", "*">>)
      [] pat.re = "italicRe" -> MatchSpan(s, i, <<"_">>, {"_", "\n"}, <<"_">>, <<"*">>, <<"*">>, TRUE)
      [] pat.re = "underlineRe" -> MatchSpan(s, i, <<"+">>, {"+", "\n"}, <<"+">>, <<"_", "_">>, <<>>, FALSE)
      [] pat.re = "strikeRe" -> MatchGuarded(s, i, "-", <<"~", "~">>)
      [] pat.re = "inlineCodeRe" -> MatchSpan(s, i, <<"{", "{">>, {"}"}, <<"}", "}">>, <<"BT">>, <<"BT">>, TRUE)
      [] pat.re = "supRe" -> MatchSpan(s, i, <<"^">>, {"^"}, <<"^">>, <<>>, <<>>, TRUE)
      [] pat.re = "subRe" -> MatchSpan(s, i, <<"~">>, {"~"}, <<"~">>, <<>>, <<>>, TRUE)
      [] pat.re = "panelRe" -> MatchPanel(s, i)
      [] pat.re = "quoteRe" -> MatchQuote(s, i)
      [] pat.re = "bqRe" -> MatchLineTag(s, i, <<"b", "q", ".">>, <<">">>)
      [] pat.re = "linkRe" -> MatchLink(s, i)
      [] pat.re = "simpleLinkRe" -> MatchSimpleLink(s, i)

RECURSIVE ReplaceFrom(_, _, _)
ReplaceFrom(pat, s, i) ==
    IF i > Len(s) THEN <<>>
    ELSE LET m == MatchAt(pat, s, i)
         IN  IF m.ok THEN m.rep \o ReplaceFrom(pat, s, m.end + 1)
             ELSE <<s[i]>> \o ReplaceFrom(pat, s, i + 1)

ReplaceAllRe(pat, s) == ReplaceFrom(pat, s, 1)

Re(name) == [re |-> name]


(***************************************************************************)
(* ConvertJiraToMarkdown and its passes                                    *)
(***************************************************************************)

convertCodeBlocks(content) ==
    ReplaceAllRe(Re("noFormatRe"), ReplaceAllRe(Re("codeBlockRe"), content))

\* the keys h1. to h6. of the map headings
HeadingLevels == 6

RECURSIVE convertHeadingsFrom(_, _, _)
convertHeadingsFrom(content, order, k) ==
    IF k > Len(order) THEN content
    ELSE convertHeadingsFrom(ReplaceAllRe([re |-> "heading", n |-> order[k]], content), order, k + 1)

\* order is the order in which range visits the six entries of the map
convertHeadings(content, order) == convertHeadingsFrom(content, order, 1)

Orderings(S) ==
    {f \in [1..Cardinality(S) -> S] : \A x \in S : \E k \in 1..Cardinality(S) : f[k] = x}

RECURSIVE Ascending(_)
Ascending(S) == IF S = {} THEN <<>> ELSE <<Min(S)>> \o Ascending(S \ {Min(S)})

\* Go leaves the iteration order of a map unspecified.  An entry whose tag
\* does not occur in content replaces nothing whenever it is visited, so
\* the orders drawn are those of the entries whose tag occurs, the other
\* entries following.
MapOrders(content) ==
    LET live == {n \in 1..HeadingLevels : Contains(content, <<"h", DigitOf(n), ".">>)}
    IN  {p \o Ascending((1..HeadingLevels) \ live) : p \in Orderings(live)}

convertListLine(line) ==
    IF HasPrefix(line, <<"#">>) THEN line
    ELSE IF HasPrefix(line, <<"#", " ">>) /\ Len(line) >= 3 /\ line[3] # "#"
         THEN <<"1", ".", " ">> \o TrimPrefix(line, <<"#", " ">>)
    ELSE IF HasPrefix(line, <<"#", "#", " ">>) /\ Len(line) >= 4 /\ line[4] # "#"
         THEN <<" ", " ", " ", "1", ".", " ">> \o TrimPrefix(line, <<"#", "#", " ">>)
    ELSE IF HasPrefix(line, <<"#", "#", "#", " ">>) /\ Len(line) >= 5 /\ line[5] # "#"
         THEN <<" ", " ", " ", " ", " ", " ", "1", ".", " ">> \o TrimPrefix(line, <<"#", "#", "#", " ">>)
    ELSE IF HasPrefix(line, <<"*", " ">>)
         THEN <<"-", " ">> \o TrimPrefix(line, <<"*", " ">>)
    ELSE IF HasPrefix(line, <<"*", "*", " ">>)
         THEN <<" ", " ", "-", " ">> \o TrimPrefix(line, <<"*", "*", " ">>)
    ELSE IF HasPrefix(line, <<"*", "*", "*", " ">>)
         THEN <<" ", " ", " ", " ", "-", " ">> \o TrimPrefix(line, <<"*", "*", "*", " ">>)
    ELSE line

convertLists(content) ==
    LET lines == Split(content, NL)
    IN  Join([k \in 1..Len(lines) |-> convertListLine(lines[k])], NL)

convertTextFormatting(content) ==
    ReplaceAllRe(Re("subRe"),
      ReplaceAllRe(Re("supRe"),
        ReplaceAllRe(Re("inlineCodeRe"),
          ReplaceAllRe(Re("strikeRe"),
            ReplaceAllRe(Re("underlineRe"),
              ReplaceAllRe(Re("italicRe"),
                ReplaceAllRe(Re("boldRe"), content)))))))

convertPanels(content) == ReplaceAllRe(Re("panelRe"), content)

convertQuotes(content) == ReplaceAllRe(Re("bqRe"), ReplaceAllRe(Re("quoteRe"), content))

convertLinks(content) == ReplaceAllRe(Re("simpleLinkRe"), ReplaceAllRe(Re("linkRe"), content))

TrimCells(cells) == [k \in 1..Len(cells) |-> TrimSpace(cells[k])]

TableRow(cells) == <<"|", " ">> \o Join(cells, <<" ", "|", " ">>) \o <<" ", "|">>

RECURSIVE convertTableLines(_, _, _)
convertTableLines(lines, k, inTable) ==
    IF k > Len(lines) THEN <<>>
    ELSE
      LET line == lines[k]
          trimmed == TrimSpace(line)
          bars == <<"|", "|">>
      IN  IF HasPrefix(trimmed, bars) /\ HasSuffix(trimmed, bars)
          THEN LET cleanHeaders == TrimCells(Split(Trim(trimmed, "|"), bars))
                   separators == [c \in 1..Len(cleanHeaders) |-> <<"-", "-", "-">>]
               IN  <<TableRow(cleanHeaders), TableRow(separators)>>
                     \o convertTableLines(lines, k + 1, TRUE)
          ELSE IF HasPrefix(trimmed, <<"|">>) /\ HasSuffix(trimmed, <<"|">>) /\ inTable
          THEN <<TableRow(TrimCells(Split(Trim(trimmed, "|"), <<"|">>)))>>
                 \o convertTableLines(lines, k + 1, inTable)
          ELSE <<line>> \o convertTableLines(lines, k + 1, FALSE)

\* the table pass that takes every row between bars for a data row,
\* whether or not a table is open
convertTables_anyRow(content) == Join(convertTableLines(Split(content, NL), 1, TRUE), NL)

\* the table pass, appending the trimmed line in place of the line
convertTables_trimmed(content) ==
    LET lines == Split(content, NL)
    IN  Join(convertTableLines([k \in 1..Len(lines) |-> TrimSpace(lines[k])], 1, FALSE), NL)

convertTables(content) == Join(convertTableLines(Split(content, NL), 1, FALSE), NL)

NormalizeNewlines(s) == ReplaceAll(ReplaceAll(s, <<"\r", "\n">>, NL), <<"\r">>, NL)

\* the passes after convertHeadings, with the text effects converted
\* before the lists
AfterHeadings_formatFirst(content) ==
    convertTables(convertLinks(convertQuotes(convertPanels(
        convertLists(convertTextFormatting(content))))))

\* the passes of ConvertJiraToMarkdown after convertHeadings
AfterHeadings(content) ==
    convertTables(convertLinks(convertQuotes(convertPanels(
        convertTextFormatting(convertLists(content))))))

\* every value ConvertJiraToMarkdown(in) can return, one per order of the
\* iteration over the map of convertHeadings
FromHeadings(content) ==
    {AfterHeadings(convertHeadings(content, order)) : order \in MapOrders(content)}

ConvertJiraToMarkdown(in) ==
    IF in = <<>> THEN {in}
    ELSE FromHeadings(convertCodeBlocks(NormalizeNewlines(in)))


(***************************************************************************)
(* ConvertMarkdownToJira and its passes                                    *)
(***************************************************************************)

\* the entry of the map headings that the line matches: the prefixes
\* md + " " of the six entries exclude one another, so the order of the
\* iteration does not change which one is found
convertMarkdownHeadingLine(line) ==
    LET trimmed == TrimSpace(line)
        hits == {n \in 1..HeadingLevels : HasPrefix(trimmed, Hashes(n) \o <<" ">>)}
    IN  IF hits = {} THEN line
        ELSE LET n == CHOOSE n \in hits : TRUE
             IN  <<"h", DigitOf(n), ".", " ">> \o TrimSpace(TrimPrefix(trimmed, Hashes(n)))

convertMarkdownHeadings(content) ==
    LET lines == Split(content, NL)
    IN  Join([k \in 1..Len(lines) |-> convertMarkdownHeadingLine(lines[k])], NL)

\* the end of the longest run of bytes from i on that are in the class;
\* i - 1 when the run is empty
ClassEnd(s, i, class) ==
    LET bad == {j \in i..Len(s) : s[j] \notin class}
    IN  IF bad = {} THEN Len(s) ELSE Min(bad) - 1

convertMarkdownListLine(line) ==
    LET indentEnd == ClassEnd(line, 1, SpaceClass)
        indent == SubSeq(line, 1, indentEnd)
        digitsEnd == ClassEnd(line, indentEnd + 1, DigitClass)
        ordered == /\ digitsEnd >= indentEnd + 1
                   /\ digitsEnd + 2 <= Len(line)
                   /\ line[digitsEnd + 1] = "."
                   /\ ReSpace(line[digitsEnd + 2])
        unordered == HasPrefix(TrimSpace(line), <<"-", " ">>)
        text == TrimSpace(TrimPrefix(TrimSpace(line), <<"-">>))
        first == IF unordered THEN indent \o <<"*", " ">> \o text ELSE line
    IN  IF ordered THEN indent \o <<"#", " ">> \o From(line, digitsEnd + 3) ELSE first

convertMarkdownLists(content) ==
    LET lines == Split(content, NL)
    IN  Join([k \in 1..Len(lines) |-> convertMarkdownListLine(lines[k])], NL)

\* "(?s)```(\w+)?\n(.*?)\n```" and the function of lines 386-397
MatchMarkdownCodeBlock(s, i) ==
    IF ~HasPrefixAt(s, Fence, i) THEN NoMatch
    ELSE
      LET w == i + Len(Fence)
          langEnd == ClassEnd(s, w, WordClass)
          language == SubSeq(s, w, langEnd)
          bodyStart == langEnd + 2
          close == IndexFrom(s, NL \o Fence, bodyStart)
          code == SubSeq(s, bodyStart, close - 1)
          open == IF language # <<>> THEN CodeOpen \o <<":">> \o language \o <<"}">>
                  ELSE CodeClose
      IN  IF langEnd + 1 <= Len(s) /\ s[langEnd + 1] = "\n" /\ close # 0
          THEN Match(close + Len(Fence), open \o NL \o code \o NL \o CodeClose)
          ELSE NoMatch

\* `\[([^\]]+)\]\(([^)]+)\)` replaced by "[$1|$2]"
MatchMarkdownLink(s, i) ==
    LET e1 == RunEnd(s, i + 1, {"]"})
        e2 == RunEnd(s, e1 + 3, {")"})
    IN  IF /\ s[i] = "["
           /\ e1 >= i + 1 /\ HasPrefixAt(s, <<"]", "(">>, e1 + 1)
           /\ e2 >= e1 + 3 /\ e2 + 1 <= Len(s)
        THEN Match(e2 + 1, <<"[">> \o SubSeq(s, i + 1, e1) \o <<"|">>
                             \o SubSeq(s, e1 + 3, e2) \o <<"]">>)
        ELSE NoMatch

MatchMarkdownAt(pat, s, i) ==
    CASE pat.re = "mdBold" -> MatchSpan(s, i, <<"*", "*">>, {"*"}, <<"*", "*">>, <<"*">>, <<"*">>, TRUE)
      [] pat.re = "mdItalic" -> MatchSpan(s, i, <<"*">>, {"*"}, <<"*">>, <<"_">>, <<>>, FALSE)
      [] pat.re = "mdInlineCode" -> MatchSpan(s, i, <<"BT">>, {"BT"}, <<"BT">>, <<"{", "{">>, <<"}", "}">>, TRUE)
      [] pat.re = "mdCodeBlock" -> MatchMarkdownCodeBlock(s, i)
      [] pat.re = "mdLink" -> MatchMarkdownLink(s, i)

RECURSIVE ReplaceMarkdownFrom(_, _, _)
ReplaceMarkdownFrom(pat, s, i) ==
    IF i > Len(s) THEN <<>>
    ELSE LET m == MatchMarkdownAt(pat, s, i)
         IN  IF m.ok THEN m.rep \o ReplaceMarkdownFrom(pat, s, m.end + 1)
             ELSE <<s[i]>> \o ReplaceMarkdownFrom(pat, s, i + 1)

convertMarkdownTextFormatting(content) ==
    ReplaceMarkdownFrom(Re("mdInlineCode"),
        ReplaceMarkdownFrom(Re("mdItalic"),
            ReplaceMarkdownFrom(Re("mdBold"), content, 1), 1), 1)

convertMarkdownCodeBlocks(content) == ReplaceMarkdownFrom(Re("mdCodeBlock"), content, 1)

convertMarkdownLinks(content) == ReplaceMarkdownFrom(Re("mdLink"), content, 1)

ConvertMarkdownToJira(in) ==
    IF in = <<>> THEN in
    ELSE convertMarkdownLinks(convertMarkdownCodeBlocks(convertMarkdownTextFormatting(
             convertMarkdownLists(convertMarkdownHeadings(NormalizeNewlines(in))))))


(***************************************************************************)
(* package jirawiki: Parse = secondPass(firstPass(input)).  Positions are  *)
(* 0-based as in the Go code.  An index or a slice expression out of       *)
(* range is a run-time panic, which ends the call.                         *)
(***************************************************************************)

\* s[i] of Go
At(s, i) == s[i + 1]

\* s[a:b] of Go, for 0 <= a <= b <= len(s)
Slice(s, a, b) == SubSeq(s, a + 1, b)

\* []rune(s): "U1" "U2" decodes to the rune "U", a byte of it alone to
\* the rune error "FFFD"
RECURSIVE Runes(_)
Runes(s) ==
    IF Len(s) = 0 THEN <<>>
    ELSE IF s[1] = "U1" /\ Len(s) >= 2 /\ s[2] = "U2" THEN <<"U">> \o Runes(From(s, 3))
    ELSE IF s[1] \in {"U1", "U2"} THEN <<"FFFD">> \o Runes(Tail(s))
    ELSE <<s[1]>> \o Runes(Tail(s))

\* the UTF-8 encoding of one rune
EncodeRune(r) ==
    IF r = "U" THEN <<"U1", "U2">>
    ELSE IF r = "FFFD" THEN <<"EF", "BF", "BD">>
    ELSE <<r>>

validTags ==
    { <<"h", "1", ".">>, <<"h", "2", ".">>, <<"h", "3", ".">>, <<"h", "4", ".">>,
      <<"h", "5", ".">>, <<"h", "6", ".">>, <<"b", "q", ".">>, QuoteTag, PanelClose,
      CodeClose, NoFormatTag, <<"[">>, <<"#">>, <<"*">>, <<"|", "|">> }

\* replacements[tag], the empty string for a key that is not in the map
replacements(tag) ==
    IF Len(tag) = 3 /\ tag[1] = "h" /\ tag[3] = "." /\ tag[2] \in {"1", "2", "3", "4", "5", "6"}
    THEN Hashes(CHOOSE n \in 1..HeadingLevels : DigitOf(n) = tag[2])
    ELSE IF tag = QuoteTag THEN <<">", " ">>
    ELSE IF tag = PanelClose THEN <<"-", "-", "-">>
    ELSE IF tag = <<"b", "q", ".">> THEN <<">">>
    ELSE IF tag = CodeClose \/ tag = NoFormatTag THEN Fence
    ELSE IF tag = <<"#">> THEN <<"-">>
    ELSE IF tag = <<"*">> THEN <<"*", "*">>
    ELSE IF tag = <<"|", "|">> THEN <<"|">>
    ELSE <<>>

RECURSIVE firstPassFrom(_, _)
firstPassFrom(in, beg) ==
    IF beg >= Len(in) THEN <<>>
    ELSE LET stops == {e \in beg..(Len(in) - 1) : At(in, e) \in {"\r", "\n"}}
             end == IF stops = {} THEN Len(in) ELSE Min(stops)
             rest == {e \in end..(Len(in) - 1) : At(in, e) # "\r"}
             end2 == IF rest = {} THEN Len(in) ELSE Min(rest)
         IN  <<Slice(in, beg, end)>> \o firstPassFrom(in, end2 + 1)

firstPass(in) == firstPassFrom(in, 0)

isTextEffectRune(runes, beg) ==
    /\ beg + 1 < Len(runes)
    /\ At(runes, beg) = "*"
    /\ At(runes, beg + 1) # " "
    /\ At(runes, beg + 1) # At(runes, beg)

isListTagRune(runes, beg) ==
    /\ beg + 1 < Len(runes)
    /\ At(runes, beg) \in {"#", "*"}
    /\ (At(runes, beg + 1) = " " \/ At(runes, beg + 1) = At(runes, beg))

isHeadingsTag(beg, line) == Len(line) >= 3 /\ At(line, beg) = "h" /\ At(line, 2) = "."

isInlineBlockQuote(beg, line) == Len(line) >= 3 /\ At(line, beg) = "b" /\ At(line, 2) = "."

isReferenceLink(beg, line) ==
    /\ At(line, beg) = "["
    /\ \E e \in (beg + 1)..(Len(line) - 1) : At(line, e) = "]"

isTable(beg, line) ==
    Len(line) - 1 # beg /\ At(line, beg) = "|" /\ At(line, Len(line) - 1) = "|"

getTagType(line, beg) ==
    IF beg + 1 >= Len(line) THEN "other"
    ELSE IF beg >= Len(Runes(line)) THEN "other"
    ELSE IF isTextEffectRune(Runes(line), beg) THEN "text-effect"
    ELSE IF isListTagRune(Runes(line), beg) THEN "list"
    ELSE IF isHeadingsTag(beg, line) THEN "heading"
    ELSE IF isInlineBlockQuote(beg, line) THEN "inline-quote"
    ELSE IF isReferenceLink(beg, line) THEN "link"
    ELSE IF isTable(beg, line) THEN "table"
    ELSE "other"

\* the map attrs is <<>> when empty and <<title>> when it holds the one
\* key the code supports
RECURSIVE attrsOf(_, _, _)
attrsOf(pieces, k, attrs) ==
    IF k > Len(pieces) THEN attrs
    ELSE LET props == Split(pieces[k], <<"=">>)
         IN  IF Len(props) = 1 THEN attrsOf(pieces, k + 1, <<props[1]>>)
             ELSE IF props[1] = <<"t", "i", "t", "l", "e">>
                  THEN attrsOf(pieces, k + 1, <<props[2]>>)
             ELSE attrsOf(pieces, k + 1, attrs)

extractAttributes(token) ==
    LET pieces == Split(token, <<":">>)
    IN  IF token[1] # "{" \/ ~Contains(token, <<":">>) THEN [tag |-> token, attrs |-> <<>>]
        ELSE IF Len(pieces) # 2 \/ pieces[2] = <<>> THEN [tag |-> token, attrs |-> <<>>]
        ELSE [tag |-> pieces[1] \o <<"}">>,
              attrs |-> attrsOf(Split(Slice(pieces[2], 0, Len(pieces[2]) - 1), <<"|">>), 1, <<>>)]

Token(tag, family, attrs, startIdx, endIdx) ==
    [tag |-> tag, family |-> family, attrs |-> attrs, startIdx |-> startIdx, endIdx |-> endIdx]

\* the first position from beg + 1 on whose byte is one of stops,
\* len(line) when there is none
ScanTo(line, beg, stops) ==
    LET hits == {e \in (beg + 1)..(Len(line) - 1) : At(line, e) \in stops}
    IN  IF hits = {} THEN Len(line) ELSE Min(hits)

\* the first position from beg + 1 on whose byte differs from the byte at
\* beg, len(line) when there is none
ScanPast(line, beg) ==
    LET hits == {e \in (beg + 1)..(Len(line) - 1) : At(line, e) # At(line, beg)}
    IN  IF hits = {} THEN Len(line) ELSE Min(hits)

Panicked == [panic |-> TRUE, tokens |-> <<>>]

\* the loop of tokenize on the trimmed line, from position beg on
RECURSIVE tokenizeFrom(_, _, _)
tokenizeFrom(line, beg, tokens) ==
    LET size == Len(line)
        tagType == getTagType(line, beg)
    IN
    IF ~(beg < size - 1) THEN [panic |-> FALSE, tokens |-> tokens]
    ELSE IF tagType = "text-effect" THEN
        LET end == ScanTo(line, beg, {At(line, beg)})
            word == IF end < size - 1 THEN Slice(line, beg, end + 1) ELSE Slice(line, beg, end)
        IN  tokenizeFrom(line, end + 1, Append(tokens, Token(word, tagType, <<>>, beg, end)))
    ELSE IF tagType \in {"heading", "inline-quote"} THEN
        LET end == ScanTo(line, beg, {"."})
        IN  IF end + 1 > size THEN Panicked
            ELSE [panic |-> FALSE,
                  tokens |-> Append(tokens, Token(Slice(line, beg, end + 1), tagType, <<>>, beg, end))]
    ELSE IF tagType = "list" THEN
        LET end == ScanPast(line, beg)
        IN  tokenizeFrom(line, end + 1,
                         Append(tokens, Token(Slice(line, beg, end), tagType, <<>>, beg, end)))
    ELSE IF tagType = "link" THEN
        LET end == ScanTo(line, beg, {"]"})
        IN  tokenizeFrom(line, end,
                         Append(tokens, Token(Slice(line, beg, end + 1), tagType, <<>>, beg, end)))
    ELSE IF tagType = "table" THEN
        tokenizeFrom(line, size - 1, Append(tokens, Token(line, tagType, <<>>, beg, size - 1)))
    ELSE
        LET stop == ScanTo(line, beg, {"*", "{", "}", "[", "]"})
            end == IF stop # size /\ At(line, stop) \notin {"*", "{", "["} THEN stop + 1 ELSE stop
            ex == extractAttributes(Slice(line, beg, end))
            fam == IF ex.tag = CodeClose \/ ex.tag = NoFormatTag THEN "code" ELSE "other"
        IN  IF ex.tag \in validTags
            THEN tokenizeFrom(line, end, Append(tokens, Token(ex.tag, fam, ex.attrs, beg, end - 1)))
            ELSE tokenizeFrom(line, end, tokens)

tokenize(line) == tokenizeFrom(TrimSpace(line), 0, <<>>)


\* what a handler wrote to out and the position it returned
Wrote(w, end) == [w |-> w, end |-> end]

handleTextEffects(t, line) ==
    LET mark == replacements(<<At(line, t.startIdx)>>)
        word == Slice(line, t.startIdx + 1, t.endIdx)
        tail == IF t.endIdx = Len(line) - 1 THEN NL ELSE <<>>
    IN  Wrote(mark \o word \o mark \o tail, t.endIdx)

handleHeadings(t, line) ==
    LET word == Slice(line, t.endIdx + 1, Len(line))
    IN  Wrote(replacements(t.tag) \o word, t.endIdx + Len(word))

handleInlineBlockQuote(t, line) ==
    LET word == Slice(line, t.endIdx + 1, Len(line))
    IN  Wrote(NL \o replacements(t.tag) \o word, t.endIdx + Len(word))

handleList(t, line) ==
    LET end == t.endIdx + 1
        tabs == [k \in 1..(t.endIdx - 1 - t.startIdx) |-> "\t"]
        rem == TrimSpace(Slice(line, end, Len(line)))
    IN  IF end >= Len(line) THEN Wrote(tabs \o <<"-">>, t.endIdx)
        ELSE Wrote(tabs \o <<"-", " ">> \o rem, end + Len(rem) + 1)

checkForInlineClose(line) ==
    IF Len(line) > Len(CodeClose) /\ HasSuffix(line, CodeClose) THEN Len(line) - Len(CodeClose)
    ELSE IF Len(line) > Len(NoFormatTag) /\ HasSuffix(line, NoFormatTag)
         THEN Len(line) - Len(NoFormatTag)
    ELSE 0

\* the loop of handleFencedCodeBlock over the lines after the opening tag
RECURSIVE fencedBody(_, _, _)
fencedBody(lines, i, w) ==
    IF i >= Len(lines) THEN [w |-> w, idx |-> i]
    ELSE LET line == TrimSpace(At(lines, i))
             x == checkForInlineClose(line)
         IN  IF line = CodeClose \/ line = NoFormatTag THEN [w |-> w, idx |-> i]
             ELSE IF x > 0 THEN [w |-> w \o Slice(line, 0, x) \o NL, idx |-> i]
             ELSE fencedBody(lines, i + 1, w \o At(lines, i) \o NL)

\* idx is what the function returns, the new lineNum of secondPass
handleFencedCodeBlock(t, idx, lines) ==
    IF idx = Len(lines) - 1 THEN [w |-> <<>>, idx |-> t.endIdx]
    ELSE LET pieces == Split(t.attrs[1], <<".">>)
             title == IF t.attrs = <<>> THEN <<>>
                      ELSE IF Len(pieces) = 2 THEN pieces[2] ELSE t.attrs[1]
             body == fencedBody(lines, idx + 1, NL \o replacements(t.tag) \o title \o NL)
         IN  [w |-> body.w \o replacements(t.tag), idx |-> body.idx]

handleReferenceLink(t, line) ==
    LET runes == Runes(line)
        pieces == Split(Slice(runes, t.startIdx + 1, t.endIdx), <<"|">>)
        link == IF Len(pieces) = 2
                THEN <<"[">> \o pieces[1] \o <<"]", "(">> \o pieces[2] \o <<")">>
                ELSE <<"[">> \o pieces[1] \o <<"]">>
        Encode(rs) == Join([k \in 1..Len(rs) |-> EncodeRune(rs[k])], <<>>)
    IN  IF Len(line) < 2 THEN Wrote(<<>>, t.endIdx)
        ELSE IF t.startIdx + 1 >= Len(runes) \/ t.endIdx >= Len(runes)
             THEN Wrote(Encode(Slice(runes, t.startIdx, Len(runes))), t.endIdx)
        ELSE Wrote(Encode(link), t.endIdx)

handleTable(t, line) ==
    LET headers == ReplaceAll(line, <<"|", "|">>, <<"|">>)
        cols == Split(headers, <<"|">>)
        sep == Join([k \in 1..(Len(cols) - 2) |-> <<"|", "-", "-", "-">>], <<>>)
    IN  IF At(line, 1) # "|" THEN Wrote(line, t.endIdx)
        ELSE Wrote(headers \o NL \o sep \o <<"|">>, t.endIdx)

\* case typeTagOther of secondPass
handleOther(t, runes) ==
    LET open == IF t.tag = QuoteTag
                THEN (IF t.endIdx # Len(runes) - 1 THEN NL \o replacements(t.tag) ELSE <<>>)
                ELSE NL \o replacements(t.tag)
        title == IF t.attrs # <<>> THEN NL \o <<"*", "*">> \o t.attrs[1] \o <<"*", "*">> \o NL
                 ELSE <<>>
        panel == IF t.tag = PanelClose
                 THEN title \o (IF t.endIdx # Len(runes) - 1 THEN NL ELSE <<>>)
                 ELSE <<>>
    IN  Wrote(open \o panel, t.endIdx)

\* tokenStarts: 0 when no token starts at idx, else the index of the first
tokenStarts(idx, tokens) ==
    LET hits == {k \in 1..Len(tokens) : tokens[k].startIdx = idx}
    IN  IF hits = {} THEN 0 ELSE Min(hits)

\* the loop labelled out of secondPass over the runes of one line; the
\* result is what it wrote and the value of lineNum after it
RECURSIVE renderLine(_, _, _, _, _, _)
renderLine(lines, lineNum, line, tokens, beg, w) ==
    LET runes == Runes(line)
        k == tokenStarts(beg, tokens)
        t == tokens[k]
        h == CASE t.family = "text-effect" -> handleTextEffects(t, line)
               [] t.family = "heading" -> handleHeadings(t, line)
               [] t.family = "inline-quote" -> handleInlineBlockQuote(t, line)
               [] t.family = "list" -> handleList(t, line)
               [] t.family = "link" -> handleReferenceLink(t, line)
               [] t.family = "table" -> handleTable(t, line)
               [] t.family = "other" -> handleOther(t, runes)
        f == handleFencedCodeBlock(t, lineNum, lines)
    IN  IF ~(beg < Len(runes)) THEN [w |-> w, lineNum |-> lineNum]
        ELSE IF k = 0
             THEN renderLine(lines, lineNum, line, tokens, beg + 1, w \o EncodeRune(At(runes, beg)))
        ELSE IF t.family = "code" THEN [w |-> w \o f.w, lineNum |-> f.idx]
        ELSE renderLine(lines, lineNum, line, tokens, h.end + 1, w \o h.w)

\* the characters whose backslash escape secondPass removes, in the order
\* of lines 205-235
Escaped ==
    << "[", "]", "(", ")", "*", "_", "-", "+", "#", ".", "!", "|", "{", "}", "<", ">", "&",
       "BT", "~", "^", "@", "$", "%", "=", ":", ";", "'", "\"", "?", "/", "\\" >>

RECURSIVE unescapeFrom(_, _)
unescapeFrom(result, k) ==
    IF k > Len(Escaped) THEN result
    ELSE LET r == ReplaceAll(result, <<"\\", Escaped[k]>>, <<Escaped[k]>>)
         IN  IF r = <<>> THEN r ELSE unescapeFrom(r, k + 1)

finish(out) ==
    LET result == unescapeFrom(out, 1)
    IN  IF HasSuffix(result, NL) THEN result ELSE result \o NL

\* the loop of secondPass over the lines; the result of the call is
\* [panic |-> TRUE] when tokenize panics, else the string returned
RECURSIVE secondPassFrom(_, _, _)
secondPassFrom(lines, lineNum, out) ==
    IF ~(lineNum < Len(lines)) THEN [panic |-> FALSE, ret |-> finish(out)]
    ELSE
      LET line == At(lines, lineNum)
          tk == tokenize(line)
          r == renderLine(lines, lineNum, line, tk.tokens, 0, <<>>)
      IN  IF tk.panic THEN [panic |-> TRUE, ret |-> <<>>]
          ELSE IF Len(tk.tokens) = 0
          THEN secondPassFrom(lines, lineNum + 1,
                   out \o line \o (IF lineNum + 1 < Len(lines) - 1 THEN NL ELSE <<>>))
          ELSE secondPassFrom(lines, r.lineNum + 1,
                   out \o r.w \o (IF r.lineNum + 1 < Len(lines) THEN NL ELSE <<>>))

secondPass(lines) == secondPassFrom(lines, 0, <<>>)

Parse(in) == secondPass(firstPass(in))

\* FromJiraMD of internal/md
FromJiraMD(jfm) == Parse(jfm)


(***************************************************************************)
(* Tickets, their files, and the JIRA client.  A ticket is held with the   *)
(* attributes the front matter carries; the body of every ticket is one    *)
(* and the same text throughout, because what JIRA makes of a description  *)
(* is decided in JIRA and in libraries outside the repository.  status     *)
(* stands for the attributes that FromFile reads and JIRA owns.            *)
(***************************************************************************)

Titles == {"t", "u"}

Types == {"task", "bug"}

\* no parent, or the key of an epic
ParentKeys == {"", "PRJ-0"}

Statuses == {"To Do", "Done"}

\* the key of the one issue on the server at the start, and the keys the
\* server gives to the issues created, in order
FirstKey == "PRJ-1"

\* most issues created on the server
MaxCreated == 2

CreatedKey(n) == IF n = 0 THEN "PRJ-2" ELSE IF n = 1 THEN "PRJ-3" ELSE "PRJ-4"

Ticket(key, parentKey, type, status, title) ==
    [Key |-> key, ParentKey |-> parentKey, Type |-> type, Status |-> status, Title |-> title]

\* Issue and IssueFields of the client
Issue(summary, issueType, parent, status) ==
    [Summary |-> summary, IssueType |-> issueType, Parent |-> parent, Status |-> status]

\* strings.ToLower on the names of the issue types
ToLower(name) == IF name = "Task" THEN "task" ELSE IF name = "Bug" THEN "bug" ELSE name

\* the issue type that the configuration lists under the name
TypeNamed(type) == IF type = "task" THEN "Task" ELSE "Bug"

convert(key, issue) ==
    Ticket(key, issue.Parent, ToLower(issue.IssueType), issue.Status, issue.Summary)

\* a file name: the base name without .md, and whether a dot precedes it
Name(dot, base) == [dot |-> dot, base |-> base]

\* the name SaveToFile gives: Key.md, or TMP-<time>.md without a key
FileOf(t) == Name(FALSE, IF t.Key = "" THEN "TMP" ELSE t.Key)

\* the directory after t.SaveToFile(dir); FromFile gives back t
SaveToFile(dir, t) ==
    [f \in DOMAIN dir \cup {FileOf(t)} |-> IF f = FileOf(t) THEN t ELSE dir[f]]

\* the directory after os.Remove of the file
Remove(dir, name) == [f \in DOMAIN dir \ {name} |-> dir[f]]

\* the front matter of ToMarkdownWithoutReadonly
ToMarkdownWithoutReadonly(t) ==
    [title |-> t.Title, parentKey |-> t.ParentKey, type |-> t.Type]

HasNonReadonlyDiff(t, other) ==
    ToMarkdownWithoutReadonly(t) # ToMarkdownWithoutReadonly(other)

DiffResult(key, filePath, hasDiff, diffText) ==
    [Key |-> key, FilePath |-> filePath, HasDiff |-> hasDiff, DiffText |-> diffText]

\* the results of CompareDirs: one for each file the pattern .*.md finds,
\* and one for each file the pattern *.md finds, which are all the files,
\* those with a dot too
CompareDirs(local, cache) ==
    {DiffResult(local[f].Key, f, TRUE, "deleted") : f \in {g \in DOMAIN local : g.dot}}
      \cup
    {IF f \notin DOMAIN cache
       THEN DiffResult(local[f].Key, f, TRUE, "new")
       ELSE IF ~HasNonReadonlyDiff(local[f], cache[f])
       THEN DiffResult(local[f].Key, f, FALSE, "")
       ELSE DiffResult(local[f].Key, f, TRUE, "changed") : f \in DOMAIN local}

\* the server: its issues by key, and how many it has created
Server(issues, created) == [issues |-> issues, created |-> created]

WithIssue(j, key, issue) ==
    Server([k \in DOMAIN j.issues \cup {key} |-> IF k = key THEN issue ELSE j.issues[k]],
           j.created)

WithoutIssue(j, key) ==
    Server([k \in DOMAIN j.issues \ {key} |-> j.issues[k]], j.created)

\* the fields of the PUT request of UpdateIssue, applied to the issue:
\* summary and parent are sent when they are not empty
Put(issue, t) ==
    Issue(IF t.Title # "" THEN t.Title ELSE issue.Summary,
          issue.IssueType,
          IF t.ParentKey # "" THEN t.ParentKey ELSE issue.Parent,
          issue.Status)

\* every outcome of UpdateIssue: the request fails and nothing changes; or
\* it succeeds, and then a status that is not empty is reached by a
\* transition when the workflow offers one, and is an error when not
UpdateIssue(j, t) ==
    {[err |-> TRUE, jira |-> j]}
      \cup
    (IF t.Key \notin DOMAIN j.issues THEN {}
     ELSE IF t.Status = ""
     THEN {[err |-> FALSE, jira |-> WithIssue(j, t.Key, Put(j.issues[t.Key], t))]}
     ELSE {[err |-> TRUE, jira |-> WithIssue(j, t.Key, Put(j.issues[t.Key], t))],
           [err |-> FALSE,
            jira |-> WithIssue(j, t.Key,
                       [Put(j.issues[t.Key], t) EXCEPT !.Status = t.Status])]})

\* every outcome of DeleteIssue: the server answers 204 only for an issue
\* it has
DeleteIssue(j, key) ==
    {[err |-> TRUE, jira |-> j]}
      \cup
    (IF key \in DOMAIN j.issues THEN {[err |-> FALSE, jira |-> WithoutIssue(j, key)]} ELSE {})

\* every outcome of FetchIssue
FetchIssue(j, key) ==
    {[err |-> TRUE, ticket |-> Ticket("", "", "", "", "")]}
      \cup
    (IF key \in DOMAIN j.issues
     THEN {[err |-> FALSE, ticket |-> convert(key, j.issues[key])]} ELSE {})

\* the tickets BulkFetchIssues returns: those of the keys the server has
BulkFetchIssues(j, keys) == {convert(k, j.issues[k]) : k \in keys \cap DOMAIN j.issues}

\* the directory after every ticket of the set has been saved to it
SaveAll(dir, tickets) ==
    [f \in DOMAIN dir \cup {FileOf(t) : t \in tickets} |->
        IF \E t \in tickets : FileOf(t) = f
        THEN CHOOSE t \in tickets : FileOf(t) = f
        ELSE dir[f]]

\* every outcome of CreateIssue: an error without a request when the type
\* is not one of the configuration, an error when the request fails, and
\* after the issue is created an error when it cannot be fetched
CreateIssue(j, t) ==
    LET key == CreatedKey(j.created)
        made == Server([k \in DOMAIN j.issues \cup {key} |->
                           IF k = key
                           THEN Issue(t.Title, TypeNamed(t.Type), t.ParentKey, "To Do")
                           ELSE j.issues[k]],
                       j.created + 1)
    IN  {[err |-> TRUE, jira |-> j, ticket |-> t]}
          \cup
        (IF t.Type \in Types /\ j.created < MaxCreated
         THEN {[err |-> TRUE, jira |-> made, ticket |-> t],
               [err |-> FALSE, jira |-> made, ticket |-> convert(key, made.issues[key])]}
         ELSE {})

\* the list of rm is not open
NoModel == [quit |-> TRUE, cancelled |-> TRUE]

\* no ticket files and no server: the state of the runs of the converters
NoFiles ==
    /\ localDir = <<>>
    /\ cacheDir = <<>>
    /\ jira = Server(<<>>, 0)
    /\ pending = {}
    /\ outcome = {}
    /\ runs = 0
    /\ rmModel = NoModel


(***************************************************************************)
(* The state machine: a text is drawn, then the converters are called, on  *)
(* the text or on what an earlier call returned.  A call that panics ends  *)
(* the program.                                                            *)
(***************************************************************************)

\* most calls in one run
MaxCalls == 2

\* longest wiki document, in elements
MaxFrags == 3

\* the elements of a wiki document: words, blanks, line breaks, text
\* effects, links and list markers
Fragments ==
    { <<"a">>, <<" ">>, <<"\n">>, <<"\r">>,
      <<"*", "a", "*">>, <<"_", "a", "_">>, <<"-", "a", "-">>, <<"+", "a", "+">>,
      <<"[", "a", "|", "b", "]">>, <<"[", "a", "]">>,
      <<"#", " ">>, <<"*", " ">> }

\* longest text of lines, in fragments
MaxLineFrags == 4

\* plain bytes and heading tags
LineFragments ==
    { <<"a">>, <<" ">>, <<"\n">>, <<"\r">>, <<"h", "1", ".", " ">>, <<"h", "2", ".", " ">> }

\* longest text given to the tokenizing converter, in bytes
MaxParseLen == 6

ParseBytes == { <<"*">>, <<"a">>, <<".">>, <<"h">>, <<" ">> }

\* longest body of a code block, in fragments
MaxBody == 2

BodyFragments ==
    { <<"a">>, <<" ">>, <<"*", "a", "*">>, <<"_", "a", "_">>, <<"-", "a", "-">>,
      <<"{", "{", "a", "}", "}">>, <<"[", "a", "]">> }

\* opening tag, closing tag and language of the code blocks drawn
CodeTags ==
    { [open |-> CodeClose, close |-> CodeClose, lang |-> <<>>],
      [open |-> CodeOpen \o <<":", "g", "o", "}">>, close |-> CodeClose, lang |-> <<"g", "o">>],
      [open |-> NoFormatTag, close |-> NoFormatTag, lang |-> <<>>] }

\* a code block on lines of its own: tag, body, closing tag
Block(tag, body) == tag.open \o NL \o body \o NL \o tag.close

RECURSIVE Texts(_, _)
Texts(F, n) ==
    IF n = 0 THEN {<<>>}
    ELSE LET shorter == Texts(F, n - 1)
         IN  shorter \cup {t \o f : t \in shorter, f \in F}

Call(fn, arg, panic, ret) == [fn |-> fn, arg |-> arg, panic |-> panic, ret |-> ret]

\* the record of a call that returned r.ret or panicked
Returned(fn, arg, r) == Call(fn, arg, r.panic, r.ret)

Crashed == \E k \in 1..Len(calls) : calls[k].panic

\* the texts a call can be given
Args == {input} \cup {calls[k].ret : k \in 1..Len(calls)}

Bodies == Texts(BodyFragments, MaxBody)

Init ==
    /\ input \in Texts(Fragments, MaxFrags)
    /\ calls = <<>>
    /\ NoFiles

InitLines ==
    /\ input \in Texts(LineFragments, MaxLineFrags)
    /\ calls = <<>>
    /\ NoFiles

InitParse ==
    /\ input \in Texts(ParseBytes, MaxParseLen)
    /\ calls = <<>>
    /\ NoFiles

InitCode ==
    /\ input \in {Block(tag, body) : tag \in CodeTags, body \in Bodies}
    /\ calls = <<>>
    /\ NoFiles

CallConvertJiraToMarkdown ==
    /\ Len(calls) < MaxCalls
    /\ ~Crashed
    /\ \E arg \in Args : \E ret \in ConvertJiraToMarkdown(arg) :
           calls' = Append(calls, Call("ConvertJiraToMarkdown", arg, FALSE, ret))
    /\ UNCHANGED <<input, files>>

CallConvertMarkdownToJira ==
    /\ Len(calls) < MaxCalls
    /\ ~Crashed
    /\ \E arg \in Args :
           calls' = Append(calls, Call("ConvertMarkdownToJira", arg, FALSE, ConvertMarkdownToJira(arg)))
    /\ UNCHANGED <<input, files>>

CallFromJiraMD ==
    /\ Len(calls) < MaxCalls
    /\ ~Crashed
    /\ \E arg \in Args : calls' = Append(calls, Returned("FromJiraMD", arg, FromJiraMD(arg)))
    /\ UNCHANGED <<input, files>>

Next ==
    \/ CallConvertJiraToMarkdown
    \/ CallConvertMarkdownToJira
    \/ CallFromJiraMD

Spec == Init /\ [][Next]_vars

\* texts of lines, converted to Markdown
NextLines == CallConvertJiraToMarkdown

SpecLines == InitLines /\ [][NextLines]_vars

\* byte strings given to the tokenizing converter
NextParse == CallFromJiraMD

SpecParse == InitParse /\ [][NextParse]_vars

\* code blocks, converted to Markdown and back
NextCode ==
    \/ CallConvertJiraToMarkdown
    \/ CallConvertMarkdownToJira

SpecCode == InitCode /\ [][NextCode]_vars


\* longest Markdown document, in fragments
MaxMdFrags == 3

\* the elements of a Markdown document: words, blanks, line breaks, strong
\* emphasis, list items and the indentation of a nested item
MdFragments ==
    { <<"a">>, <<" ">>, <<"\n">>, <<"*", "*", "a", "*", "*">>,
      <<"-", " ", "a">>, <<" ", " ">>, <<"1", ".", " ", "a">> }

InitMarkdown ==
    /\ input \in Texts(MdFragments, MaxMdFrags)
    /\ calls = <<>>
    /\ NoFiles

\* Markdown documents, converted to wiki markup
NextMarkdown == CallConvertMarkdownToJira

SpecMarkdown == InitMarkdown /\ [][NextMarkdown]_vars

\* longest text of list items, in fragments
MaxItemFrags == 4

\* the unordered-list marker, a bold span, words, blanks and line breaks
ItemFragments == { <<"*", " ">>, <<"*", "a", "*">>, <<" ">>, <<"a">>, <<"\n">> }

InitItems ==
    /\ input \in Texts(ItemFragments, MaxItemFrags)
    /\ calls = <<>>
    /\ NoFiles

\* list items with bold spans, converted to Markdown
NextItems == CallConvertJiraToMarkdown

SpecItems == InitItems /\ [][NextItems]_vars

\* most lines of a document with tables
MaxTableLines == 3

\* header rows, data rows, a line of text and an empty line
TableLines ==
    { <<"|", "|", "A", "|", "|", "B", "|", "|">>, <<"|", "|", "A", "|", "|">>,
      <<"|", "1", "|", "2", "|">>, <<"|", "1", "|">>,
      <<"a">>, <<>> }

\* the documents of at most n lines, each as the sequence of its lines
RECURSIVE Documents(_, _)
Documents(L, n) ==
    IF n = 0 THEN {<<>>}
    ELSE LET shorter == Documents(L, n - 1)
         IN  shorter \cup {Append(d, l) : d \in shorter, l \in L}

InitTables ==
    /\ input \in {Join(d, NL) : d \in Documents(TableLines, MaxTableLines)}
    /\ calls = <<>>
    /\ NoFiles

\* documents with tables, converted to Markdown
NextTables == CallConvertJiraToMarkdown

SpecTables == InitTables /\ [][NextTables]_vars

\* longest text with block tags, in fragments
MaxTagFrags == 3

\* the tags that open a block
BlockTags == {CodeClose, NoFormatTag, PanelClose, QuoteTag}

\* block tags, words, blanks, line breaks and the underline delimiter
TagFragments == BlockTags \cup { <<"a">>, <<" ">>, <<"\n">>, <<"+">> }

InitTags ==
    /\ input \in Texts(TagFragments, MaxTagFrags)
    /\ calls = <<>>
    /\ NoFiles

\* texts with block tags, converted to Markdown
NextTags == CallConvertJiraToMarkdown

SpecTags == InitTags /\ [][NextTags]_vars

\* ToJiraMD of internal/md, on the empty document: the early return.  A
\* document that is not empty is handed to the CommonMark parser of
\* blackfriday, a library outside the repository, and has no value here.
ToJiraMD(md) == CASE md = <<>> -> md

CallToJiraMD ==
    /\ Len(calls) < MaxCalls
    /\ ~Crashed
    /\ \E arg \in Args :
           /\ arg = <<>>
           /\ calls' = Append(calls, Call("ToJiraMD", arg, FALSE, ToJiraMD(arg)))
    /\ UNCHANGED <<input, files>>

\* longest text given to the four entry points, in fragments
MaxEntryFrags == 2

\* a word, a blank, a line break and a bold span
EntryFragments == { <<"a">>, <<" ">>, <<"\n">>, <<"*", "a", "*">> }

InitEntry ==
    /\ input \in Texts(EntryFragments, MaxEntryFrags)
    /\ calls = <<>>
    /\ NoFiles

\* the four entry points of the converters
NextEntry ==
    \/ CallConvertJiraToMarkdown
    \/ CallConvertMarkdownToJira
    \/ CallToJiraMD
    \/ CallFromJiraMD

SpecEntry == InitEntry /\ [][NextEntry]_vars

\* most runs of push
MaxRuns == 2

\* the results with a difference
Changed(local, cache) == {d \in CompareDirs(local, cache) : d.HasDiff}

\* the keys of the results that have one
KeysToFetch(changed) == {d.Key : d \in {c \in changed : c.Key # ""}}

\* what a goroutine of the run reports for its result
Done(d, result) == [FilePath |-> d.FilePath, DiffText |-> d.DiffText, result |-> result]

\* the tickets of the one issue of the server as a file can hold them
LocalTickets ==
    {Ticket(FirstKey, p, ty, st, ti) :
        p \in ParentKeys, ty \in Types, st \in Statuses, ti \in Titles}

\* the ticket of a file written by hand, without a key
NewTicket == Ticket("", "", "task", "", "t")

\* the directory with the file of each ticket of the set
DirOf(tickets) == SaveAll(<<>>, tickets)

\* a work directory with the ticket of the issue, edited or not, as a file
\* or renamed to its deletion marker, and with or without a new ticket; the
\* server with the issue; the cache empty or as the last fetch left it
InitPush ==
    /\ input = <<>>
    /\ calls = <<>>
    /\ \E t \in LocalTickets : \E dot \in BOOLEAN : \E new \in SUBSET {NewTicket} :
           localDir = [f \in {Name(dot, t.Key)} \cup {FileOf(n) : n \in new} |->
                          IF f.base = t.Key THEN t ELSE NewTicket]
    /\ \E ty \in {"Task", "Bug"} : \E p \in ParentKeys : \E st \in Statuses : \E ti \in Titles :
           jira = Server([k \in {FirstKey} |-> Issue(ti, ty, p, st)], 0)
    /\ cacheDir \in {<<>>, DirOf(BulkFetchIssues(jira, {FirstKey}))}
    /\ pending = {}
    /\ outcome = {}
    /\ runs = 0
    /\ rmModel = NoModel

\* push up to the confirmation: the differences are found, the tickets
\* that have one are fetched again into the cache, the differences are
\* found again and the user confirms some of them.  The run ends here when
\* nothing differs, when the fetch fails, with --dry-run, and when nothing
\* is confirmed.
PushDetect ==
    /\ pending = {}
    /\ runs < MaxRuns
    /\ runs' = runs + 1
    /\ outcome' = {}
    /\ UNCHANGED <<rmModel, input, calls, localDir, jira>>
    /\ \/ /\ Changed(localDir, cacheDir) = {}
          /\ UNCHANGED <<cacheDir, pending>>
       \/ /\ KeysToFetch(Changed(localDir, cacheDir)) # {}
          /\ UNCHANGED <<cacheDir, pending>>
       \/ /\ Changed(localDir, cacheDir) # {}
          /\ cacheDir' = SaveAll(cacheDir,
                             BulkFetchIssues(jira, KeysToFetch(Changed(localDir, cacheDir))))
          /\ \E confirmed \in SUBSET Changed(localDir, cacheDir') : pending' = confirmed

\* the delete branch after DeleteIssue returned r: the marker and the cache
\* file are removed only when it returned no error
removeMarked_unchecked(local, cache, d, r) ==
    [localDir |-> Remove(local, d.FilePath),
     cacheDir |-> Remove(cache, Name(FALSE, d.FilePath.base)),
     result |-> IF r.err THEN "failed" ELSE "deleted"]

removeMarked(local, cache, d, r) ==
    IF r.err
    THEN [localDir |-> local, cacheDir |-> cache, result |-> "failed"]
    ELSE [localDir |-> Remove(local, d.FilePath),
          cacheDir |-> Remove(cache, Name(FALSE, d.FilePath.base)),
          result |-> "deleted"]

\* the goroutine of a result whose file name begins with a dot
PushDelete ==
    \E d \in pending :
        /\ d.FilePath.dot
        /\ pending' = pending \ {d}
        /\ UNCHANGED <<rmModel, input, calls, runs>>
        /\ IF d.FilePath \notin DOMAIN localDir
           THEN /\ outcome' = outcome \cup {Done(d, "failed")}
                /\ UNCHANGED <<localDir, cacheDir, jira>>
           ELSE \E r \in DeleteIssue(jira, localDir[d.FilePath].Key) :
                    /\ jira' = r.jira
                    /\ localDir' = removeMarked(localDir, cacheDir, d, r).localDir
                    /\ cacheDir' = removeMarked(localDir, cacheDir, d, r).cacheDir
                    /\ outcome' = outcome \cup
                           {Done(d, removeMarked(localDir, cacheDir, d, r).result)}

\* the file-system call of the create branch that fails, or none
FileFailures == {"none", "SaveToFile", "Remove", "cache"}

\* the goroutine of a result whose ticket has no key
PushCreate ==
    \E d \in pending :
        /\ ~d.FilePath.dot
        /\ d.FilePath \in DOMAIN localDir
        /\ localDir[d.FilePath].Key = ""
        /\ pending' = pending \ {d}
        /\ UNCHANGED <<rmModel, input, runs>>
        /\ \E r \in CreateIssue(jira, localDir[d.FilePath]) :
               /\ jira' = r.jira
               /\ calls' = Append(calls, [fn |-> "CreateIssue", arg |-> d.FilePath,
                                          err |-> r.err, ret |-> r.ticket.Key])
               /\ IF r.err
                  THEN /\ outcome' = outcome \cup {Done(d, "failed")}
                       /\ UNCHANGED <<localDir, cacheDir>>
                  ELSE \E failing \in FileFailures :
                         CASE failing = "SaveToFile" ->
                                \* the keyed file is not written: the run of the result ends
                                /\ outcome' = outcome \cup {Done(d, "failed")}
                                /\ UNCHANGED <<localDir, cacheDir>>
                           [] failing = "Remove" ->
                                \* a warning only: the original file stays
                                /\ localDir' = SaveToFile(localDir,
                                          [localDir[d.FilePath] EXCEPT !.Key = r.ticket.Key])
                                /\ cacheDir' = SaveToFile(cacheDir, r.ticket)
                                /\ outcome' = outcome \cup {Done(d, "created")}
                           [] failing = "cache" ->
                                /\ localDir' = Remove(SaveToFile(localDir,
                                          [localDir[d.FilePath] EXCEPT !.Key = r.ticket.Key]),
                                        d.FilePath)
                                /\ outcome' = outcome \cup {Done(d, "failed")}
                                /\ UNCHANGED cacheDir
                           [] OTHER ->
                                /\ localDir' = Remove(SaveToFile(localDir,
                                          [localDir[d.FilePath] EXCEPT !.Key = r.ticket.Key]),
                                        d.FilePath)
                                /\ cacheDir' = SaveToFile(cacheDir, r.ticket)
                                /\ outcome' = outcome \cup {Done(d, "created")}

\* the goroutine of a result whose ticket has a key
PushUpdate ==
    \E d \in pending :
        /\ ~d.FilePath.dot
        /\ d.FilePath \in DOMAIN localDir
        /\ localDir[d.FilePath].Key # ""
        /\ pending' = pending \ {d}
        /\ UNCHANGED <<rmModel, input, calls, runs, localDir>>
        /\ \E u \in UpdateIssue(jira, localDir[d.FilePath]) :
               /\ jira' = u.jira
               /\ IF u.err
                  THEN /\ outcome' = outcome \cup {Done(d, "failed")}
                       /\ UNCHANGED cacheDir
                  ELSE \E f \in FetchIssue(u.jira, localDir[d.FilePath].Key) :
                           IF f.err
                           THEN /\ outcome' = outcome \cup {Done(d, "failed")}
                                /\ UNCHANGED cacheDir
                           ELSE /\ cacheDir' = SaveToFile(cacheDir, f.ticket)
                                /\ outcome' = outcome \cup {Done(d, "updated")}

NextPush ==
    \/ PushDetect
    \/ PushDelete
    \/ PushCreate
    \/ PushUpdate

SpecPush == InitPush /\ [][NextPush]_vars

(***************************************************************************)
(* rm: the tickets chosen are marked as deleted or removed.  Keys are byte *)
(* strings here, as isValidJIRAKey reads them.                             *)
(***************************************************************************)

AsciiLetters == WordClass \ (DigitClass \cup {"_"})

\* the same test with the two parts taken for each other
isValidJIRAKey_swapped(key) ==
    LET parts == Split(key, <<"-">>)
    IN  /\ Len(parts) = 2
        /\ \A i \in 1..Len(parts[1]) : parts[1][i] \in DigitClass
        /\ \A i \in 1..Len(parts[2]) : parts[2][i] \in AsciiLetters

\* isValidJIRAKey: two parts around one hyphen, the first of letters only
\* and the second of digits only; neither loop asks for a byte to be there
isValidJIRAKey(key) ==
    LET parts == Split(key, <<"-">>)
    IN  /\ Len(parts) = 2
        /\ \A i \in 1..Len(parts[1]) : parts[1][i] \in AsciiLetters
        /\ \A i \in 1..Len(parts[2]) : parts[2][i] \in DigitClass

\* longest key of a ticket file, in bytes
MaxKeyLen == 3

\* the keys a front matter can hold: every string of a letter, a digit and
\* the hyphen, the empty one for a ticket not pushed yet
RmKeys == Texts({<<"P">>, <<"1">>, <<"-">>}, MaxKeyLen)

\* the base name of the file of a ticket in the work directory: its key,
\* or TMP-<time> for a ticket without one
TmpBase == <<"T", "M", "P">>

PathOf(key) == Name(FALSE, IF key = <<>> THEN TmpBase ELSE key)

\* os.Rename: the file takes the new name, over a file of that name
Rename(dir, old, new) ==
    [f \in (DOMAIN dir \ {old}) \cup {new} |-> IF f = new THEN dir[old] ELSE dir[f]]

\* deleteTicketWithPath on the file at filePath
deleteTicketWithPath(dir, filePath) ==
    IF isValidJIRAKey(dir[filePath].Key)
    THEN Rename(dir, filePath, Name(TRUE, dir[filePath].Key))
    ELSE Remove(dir, filePath)

\* the loop over the items chosen, in their order
RECURSIVE deleteAll(_, _)
deleteAll(dir, items) ==
    IF items = <<>> THEN dir
    ELSE deleteAll(deleteTicketWithPath(dir, Head(items)), Tail(items))

\* the orders in which the files of a set can be listed
Listings(S) ==
    {items \in UNION {[1..n -> S] : n \in {Cardinality(S)}} :
        \A a \in 1..Len(items) : \A b \in 1..Len(items) : a # b => items[a] # items[b]}

\* most runs of rm
MaxRmRuns == 2

\* a work directory of at most two ticket files, named by their keys, and
\* possibly the marker that an earlier rm left for the key P-1
InitRm ==
    /\ input = <<>>
    /\ calls = <<>>
    /\ \E keys \in {{}} \cup {{k1, k2} : k1 \in RmKeys, k2 \in RmKeys} :
       \E marked \in SUBSET {<<"P", "-", "1">>} :
           localDir = [f \in {PathOf(k) : k \in keys} \cup {Name(TRUE, k) : k \in marked} |->
                          IF f.dot THEN Ticket(f.base, "", "task", "", "u")
                          ELSE Ticket(IF f.base = TmpBase THEN <<>> ELSE f.base,
                                      "", "task", "", "t")]
    /\ cacheDir = <<>>
    /\ jira = Server(<<>>, 0)
    /\ pending = {}
    /\ outcome = {}
    /\ runs = 0
    /\ rmModel = NoModel

\* rm, with keys as arguments or with the tickets chosen in the list:
\* the files are those without a dot, and each one chosen is deleted
RunRM ==
    /\ runs < MaxRmRuns
    /\ runs' = runs + 1
    /\ \E chosen \in SUBSET {f \in DOMAIN localDir : ~f.dot} :
       \E items \in Listings(chosen) :
           /\ localDir' = deleteAll(localDir, items)
           /\ outcome' = {[FilePath |-> f, result |-> "deleted"] : f \in chosen}
    /\ UNCHANGED <<rmModel, input, calls, cacheDir, jira, pending>>

NextRm == RunRM

SpecRm == InitRm /\ [][NextRm]_vars

(***************************************************************************)
(* format of internal/ticket: the body of a ticket file is normalised      *)
(* through ToJiraMD and FromJiraMD, the front matter is set aside.         *)
(***************************************************************************)

Dashes == <<"-", "-", "-">>

\* separateFrontMatter: the front matter with its closing line and a line
\* break, and the rest; no front matter for a text of fewer than three
\* lines, or whose first line is not ---, or without a closing line
separateFrontMatter(markdown) ==
    LET lines == Split(markdown, NL)
        ends == {i \in 2..Len(lines) : lines[i] = Dashes}
    IN  IF Len(lines) < 3 \/ lines[1] # Dashes \/ ends = {}
        THEN [frontMatter |-> <<>>, body |-> markdown]
        ELSE [frontMatter |-> Join(SubSeq(lines, 1, Min(ends)), NL) \o NL,
              body |-> IF Min(ends) < Len(lines)
                       THEN Join(SubSeq(lines, Min(ends) + 1, Len(lines)), NL)
                       ELSE <<>>]

\* longest text that the renderer returns, in bytes
MaxRendered == 2

\* ToJiraMD of a document that is not empty is the work of the CommonMark
\* parser of blackfriday, outside the repository: any text may come back
Renderings == Texts({<<"a">>, <<"\n">>, <<"-">>}, MaxRendered)

\* longest ticket file given to format, in fragments
MaxFormatFrags == 4

FormatFragments == {Dashes, <<"\n">>, <<"a">>}

InitFormat ==
    /\ input \in Texts(FormatFragments, MaxFormatFrags)
    /\ calls = <<>>
    /\ NoFiles

\* format(input): the calls of ToJiraMD and FromJiraMD on the body when it
\* is not empty, then the return of front matter and body joined
CallFormat ==
    /\ calls = <<>>
    /\ IF separateFrontMatter(input).body = <<>>
       THEN calls' = <<Call("format", input, FALSE,
                            separateFrontMatter(input).frontMatter)>>
       ELSE \E jmd \in Renderings :
              calls' = <<Call("ToJiraMD", separateFrontMatter(input).body, FALSE, jmd),
                         Returned("FromJiraMD", jmd, FromJiraMD(jmd)),
                         Call("format", input, FromJiraMD(jmd).panic,
                              separateFrontMatter(input).frontMatter \o FromJiraMD(jmd).ret)>>
    /\ UNCHANGED <<input, files>>

NextFormat == CallFormat

SpecFormat == InitFormat /\ [][NextFormat]_vars

(***************************************************************************)
(* getCacheDir of internal/config: the cache directory of a project.       *)
(***************************************************************************)

\* the first 16 hexadecimal digits of the SHA-256 of a text, kept as the
\* term of the text hashed: two digests are equal when the texts are
Sha256Hex16(text) == <<"sha256", text>>

\* getCacheDir(config, workDir): $HOME/.cache/tkt/<digest> of
\* "<workDir>|<Server>|<JQL>", as the list of the elements of the path
getCacheDir(config, workDir) ==
    LET hashInput == workDir \o <<"|">> \o config.Server \o <<"|">> \o config.JQL
    IN  <<"$HOME", ".cache", "tkt", Sha256Hex16(hashInput)>>

\* longest work directory, server and JQL, in bytes
MaxSettingLen == 1

Settings == Texts({<<"a">>, <<"|">>}, MaxSettingLen)

Projects == [workDir : Settings, Server : Settings, JQL : Settings]

InitCacheDir ==
    /\ input \in Projects \X Projects
    /\ calls = <<>>
    /\ NoFiles

\* getCacheDir for the next of the two projects
CallGetCacheDir ==
    /\ Len(calls) < Len(input)
    /\ calls' = Append(calls,
           Call("getCacheDir", input[Len(calls) + 1], FALSE,
                getCacheDir(input[Len(calls) + 1], input[Len(calls) + 1].workDir)))
    /\ UNCHANGED <<input, files>>

NextCacheDir == CallGetCacheDir

SpecCacheDir == InitCacheDir /\ [][NextCacheDir]_vars

\* longest list item with dashes, in fragments
MaxDashFrags == 4

\* a list marker, a word, a dash between blanks, a struck word, a line feed
DashFragments ==
    { <<"*", " ">>, <<"a">>, <<" ", "-", " ">>, <<"-", "a", "-">>, <<"\n">> }

InitDashes ==
    /\ input \in Texts(DashFragments, MaxDashFrags)
    /\ calls = <<>>
    /\ NoFiles

\* list items with dashes in their text, converted to Markdown
NextDashes == CallConvertJiraToMarkdown

SpecDashes == InitDashes /\ [][NextDashes]_vars

(***************************************************************************)
(* fetch and the background cache update: the tickets of the query are     *)
(* saved to the cache, then the start time of the run is stored in         *)
(* last_fetch.txt of the cache directory.  Time is the count of events.    *)
(***************************************************************************)

\* most events, fetch runs and remote edits together
MaxEvents == 3

\* the server with the time of the last update of every issue
Updated(j, updated) == [issues |-> j.issues, created |-> j.created, updated |-> updated]

LastFetchFile == Name(FALSE, "last_fetch.txt")

\* GetLastFetchTime: the stored time, the zero time without the file
GetLastFetchTime(cache) ==
    IF LastFetchFile \in DOMAIN cache THEN cache[LastFetchFile].Time ELSE 0

\* the cache directory after SaveLastFetchTime(timestamp)
SaveLastFetchTime(cache, timestamp) ==
    [f \in DOMAIN cache \cup {LastFetchFile} |->
        IF f = LastFetchFile THEN [Time |-> timestamp] ELSE cache[f]]

\* FetchIssues: every issue of the query
FetchIssues(j) == {convert(k, j.issues[k]) : k \in DOMAIN j.issues}

\* FetchIssuesIncremental: the issues with updated >= lastFetch
FetchIssuesIncremental(j, lastFetch) ==
    {convert(k, j.issues[k]) : k \in {i \in DOMAIN j.issues : j.updated[i] >= lastFetch}}

InitFetch ==
    /\ input = <<>>
    /\ calls = <<>>
    /\ localDir = <<>>
    /\ cacheDir = <<>>
    /\ \E t1 \in Titles : \E t2 \in Titles : \E st \in Statuses :
           jira = Updated(Server([k \in {FirstKey, CreatedKey(0)} |->
                                     Issue(IF k = FirstKey THEN t1 ELSE t2, "Task", "", st)], 0),
                          [k \in {FirstKey, CreatedKey(0)} |-> 0])
    /\ pending = {}
    /\ outcome = {}
    /\ runs = 0
    /\ rmModel = NoModel

\* somebody changes the summary of an issue on the server
RemoteEdit ==
    /\ runs < MaxEvents
    /\ runs' = runs + 1
    /\ \E k \in DOMAIN jira.issues : \E ti \in Titles \ {jira.issues[k].Summary} :
           jira' = Updated(WithIssue(jira, k, [jira.issues[k] EXCEPT !.Summary = ti]),
                           [jira.updated EXCEPT ![k] = runs + 1])
    /\ UNCHANGED <<rmModel, input, calls, localDir, cacheDir, pending, outcome>>

\* a run of fetch (clean or not) or of the background update (never
\* clean): the query, the save of every ticket, where a failure is a
\* warning, and the store of the start time, where a failure is a warning
RunFetch ==
    /\ runs < MaxEvents
    /\ runs' = runs + 1
    /\ UNCHANGED <<rmModel, input, calls, localDir, jira, pending>>
    /\ \E clean \in BOOLEAN : \E failed \in BOOLEAN :
         LET lastFetch == GetLastFetchTime(cacheDir)
             tickets == IF clean \/ lastFetch = 0
                        THEN FetchIssues(jira)
                        ELSE FetchIssuesIncremental(jira, lastFetch)
         IN  IF failed
             THEN UNCHANGED <<cacheDir, outcome>>
             ELSE \E saved \in SUBSET tickets : \E stamped \in BOOLEAN :
                    /\ outcome' = {[Key |-> t.Key,
                                    result |-> IF t \in saved THEN "saved" ELSE "failed"] :
                                       t \in tickets}
                    /\ cacheDir' =
                         IF stamped
                         THEN SaveLastFetchTime(SaveAll(IF clean THEN <<>> ELSE cacheDir, saved),
                                                runs + 1)
                         ELSE SaveAll(IF clean THEN <<>> ELSE cacheDir, saved)

NextFetch ==
    \/ RemoteEdit
    \/ RunFetch

SpecFetch == InitFetch /\ [][NextFetch]_vars

(***************************************************************************)
(* The ticket file as text: ToMarkdown of a ticket, written by SaveToFile, *)
(* and FromFile, which reads it back.  The fields are byte strings here.   *)
(***************************************************************************)

\* one entry of a YAML mapping of plain words, as yaml.Marshal writes it
YamlEntry(name, value) == name \o <<":", " ">> \o value \o NL

\* yaml.Marshal of the mapping: the entries in the order of their names
\* (key, parentKey, status, title, type), those left out not written
YamlMarshal(t) ==
    (IF t.Key # <<>> THEN YamlEntry(<<"k", "e", "y">>, t.Key) ELSE <<>>)
    \o (IF t.ParentKey # <<>>
        THEN YamlEntry(<<"p", "a", "r", "e", "n", "t", "K", "e", "y">>, t.ParentKey)
        ELSE <<>>)
    \o (IF t.Status # <<>> THEN YamlEntry(<<"s", "t", "a", "t", "u", "s">>, t.Status) ELSE <<>>)
    \o YamlEntry(<<"t", "i", "t", "l", "e">>, t.Title)
    \o YamlEntry(<<"t", "y", "p", "e">>, t.Type)

\* CreateFrontMatter: "---\n%s---\n\n"
CreateFrontMatter(yaml) == Dashes \o NL \o yaml \o Dashes \o NL \o NL

\* Ticket.ToMarkdown: the front matter and the body
TicketToMarkdown(t) == CreateFrontMatter(YamlMarshal(t)) \o t.Body

\* the value of the entry of the name in the YAML text, "" without one
YamlValue(yaml, name) ==
    LET lines == Split(yaml, NL)
        entries == {l \in {lines[i] : i \in DOMAIN lines} : HasPrefix(l, name \o <<":", " ">>)}
    IN  IF entries = {} THEN <<>>
        ELSE From(CHOOSE l \in entries : TRUE, Len(name) + 3)

\* ParseFrontMatter: the YAML between "---\n" and the next "---\n", and as
\* body all that follows these four bytes
ParseFrontMatter(content) ==
    LET open == Dashes \o NL
        close == IndexFrom(content, open, 5)
    IN  IF ~HasPrefix(content, open)
        THEN [err |-> FALSE, yaml |-> <<>>, body |-> content]
        ELSE IF close = 0
        THEN [err |-> TRUE, yaml |-> <<>>, body |-> content]
        ELSE [err |-> FALSE, yaml |-> SubSeq(content, 5, close - 1),
              body |-> From(content, close + 4)]

\* FromFile of a file with the content
FromFile(content) ==
    LET parsed == ParseFrontMatter(content)
    IN  [panic |-> parsed.err,
         ret |-> [Key |-> YamlValue(parsed.yaml, <<"k", "e", "y">>),
                  ParentKey |-> YamlValue(parsed.yaml,
                                          <<"p", "a", "r", "e", "n", "t", "K", "e", "y">>),
                  Type |-> YamlValue(parsed.yaml, <<"t", "y", "p", "e">>),
                  Status |-> YamlValue(parsed.yaml, <<"s", "t", "a", "t", "u", "s">>),
                  Title |-> YamlValue(parsed.yaml, <<"t", "i", "t", "l", "e">>),
                  Body |-> parsed.body]]

\* longest body of a ticket file, in bytes
MaxFileBody == 2

FileTickets ==
    [Key : {<<>>, <<"P", "-", "1">>}, ParentKey : {<<>>, <<"P", "-", "0">>},
     Type : {<<"t", "a", "s", "k">>}, Status : {<<>>, <<"D", "o", "n", "e">>},
     Title : {<<"t">>, <<"u">>}, Body : Texts({<<"a">>, <<"\n">>}, MaxFileBody)]

InitFile ==
    /\ input \in FileTickets
    /\ calls = <<>>
    /\ NoFiles

\* t.SaveToFile(dir) of the ticket drawn or of one read before: the content
\* of the file written
CallSaveToFile ==
    /\ Len(calls) < MaxCalls
    /\ \E t \in {input} \cup {calls[k].ret : k \in {i \in 1..Len(calls) :
                                  calls[i].fn = "FromFile" /\ ~calls[i].panic}} :
           calls' = Append(calls, Call("SaveToFile", t, FALSE, TicketToMarkdown(t)))
    /\ UNCHANGED <<input, files>>

\* FromFile of a file written before
CallFromFile ==
    /\ Len(calls) < MaxCalls
    /\ \E k \in {i \in 1..Len(calls) : calls[i].fn = "SaveToFile"} :
           calls' = Append(calls, Returned("FromFile", calls[k].ret, FromFile(calls[k].ret)))
    /\ UNCHANGED <<input, files>>

NextFile ==
    \/ CallSaveToFile
    \/ CallFromFile

SpecFile == InitFile /\ [][NextFile]_vars

(***************************************************************************)
(* rm without arguments: the list of tickets, the keys the user presses    *)
(* (rmModel.Update) and the deletion of the tickets chosen.                *)
(***************************************************************************)

Draft == <<"D", "R", "A", "F", "T">>

\* strings.ToLower on the letters of the display keys
ToLowerText(s) ==
    [i \in DOMAIN s |->
        CASE s[i] = "D" -> "d" [] s[i] = "R" -> "r" [] s[i] = "A" -> "a"
          [] s[i] = "F" -> "f" [] s[i] = "T" -> "t" [] s[i] = "P" -> "p"
          [] OTHER -> s[i]]

\* the item of newRMModel for the file: the display key is DRAFT for a
\* ticket whose key is not one of JIRA
rmTicketItem(dir, f) ==
    [key |-> IF isValidJIRAKey(dir[f].Key) THEN dir[f].Key ELSE Draft,
     title |-> dir[f].Title,
     filePath |-> f]

\* newRMModel: the tickets sorted, those without a JIRA key first; the
\* sort is not stable and the times of update are equal here, so each
\* group comes in any order
newRMModel(dir) ==
    LET loaded == {f \in DOMAIN dir : ~f.dot}
        new == {f \in loaded : ~isValidJIRAKey(dir[f].Key)}
    IN  { [tickets |-> [i \in DOMAIN order |-> rmTicketItem(dir, order[i])],
           filteredItems |-> [i \in DOMAIN order |-> rmTicketItem(dir, order[i])],
           searchQuery |-> <<>>,
           cursor |-> 0,
           selectedMap |-> {},
           cancelled |-> FALSE,
           quit |-> FALSE] :
          order \in {a \o b : a \in Listings(new), b \in Listings(loaded \ new)} }

\* the items of the sequence that satisfy the search
RECURSIVE Matching(_, _)
Matching(items, query) ==
    IF items = <<>> THEN <<>>
    ELSE (IF Contains(ToLowerText(Head(items).key), query)
             \/ Contains(ToLowerText(Head(items).title), query)
          THEN <<Head(items)>> ELSE <<>>) \o Matching(Tail(items), query)

\* filterItems (the content of the tickets is empty here)
filterItems(m) ==
    LET filtered == IF m.searchQuery = <<>> THEN m.tickets
                    ELSE Matching(m.tickets, ToLowerText(m.searchQuery))
    IN  [m EXCEPT !.filteredItems = filtered,
                  !.cursor = IF Len(filtered) > 0 /\ m.cursor >= Len(filtered) THEN 0 ELSE m.cursor]

\* the cursor brought back into the list after a search got shorter
Clamped(m) ==
    [m EXCEPT !.cursor = IF m.cursor >= Len(m.filteredItems)
                         THEN Max({Len(m.filteredItems) - 1, 0})
                         ELSE m.cursor]

\* the first ticket with the display key
FirstWithKey(m, key) == Min({i \in DOMAIN m.tickets : m.tickets[i].key = key})

\* tab: the entry of the first ticket whose display key is that of the
\* item under the cursor is inverted
Toggled(m) ==
    LET i == FirstWithKey(m, m.filteredItems[m.cursor + 1].key)
    IN  IF i \in m.selectedMap THEN m.selectedMap \ {i} ELSE m.selectedMap \cup {i}

\* the keys the user presses
Keys == {"esc", "enter", "tab", "up", "down", "backspace", "ctrl+u", "t", "d"}

\* rmModel.Update for a key message
Update(m, msg) ==
    CASE msg = "esc" -> [m EXCEPT !.cancelled = TRUE, !.quit = TRUE]
      [] msg = "enter" -> [m EXCEPT !.quit = TRUE]
      [] msg = "tab" ->
            IF Len(m.filteredItems) > 0 /\ m.cursor < Len(m.filteredItems)
            THEN [m EXCEPT !.selectedMap = Toggled(m)]
            ELSE m
      [] msg = "up" -> IF m.cursor > 0 THEN [m EXCEPT !.cursor = m.cursor - 1] ELSE m
      [] msg = "down" ->
            IF m.cursor < Len(m.filteredItems) - 1 THEN [m EXCEPT !.cursor = m.cursor + 1] ELSE m
      [] msg = "backspace" ->
            IF Len(m.searchQuery) > 0
            THEN Clamped(filterItems([m EXCEPT !.searchQuery =
                                         SubSeq(m.searchQuery, 1, Len(m.searchQuery) - 1)]))
            ELSE m
      [] msg = "ctrl+u" -> [filterItems([m EXCEPT !.searchQuery = <<>>]) EXCEPT !.cursor = 0]
      [] OTHER -> [filterItems([m EXCEPT !.searchQuery = Append(m.searchQuery, msg)])
                      EXCEPT !.cursor = 0]

\* SelectedTickets: the tickets whose entry is true, in the order of the list
SelectedTickets(m) == {m.tickets[i].filePath : i \in m.selectedMap \cap DOMAIN m.tickets}

\* most keys pressed in the list
MaxKeys == 4

\* the files of the work directory of the list: two tickets without a key
\* and one with the key P-1
RmFiles ==
    [f \in {Name(FALSE, <<"T", "M", "P", "1">>), Name(FALSE, <<"T", "M", "P", "2">>),
            Name(FALSE, <<"P", "-", "1">>)} |->
        IF f.base = <<"P", "-", "1">> THEN Ticket(f.base, "", "task", "", <<"t">>)
        ELSE IF f.base = <<"T", "M", "P", "1">> THEN Ticket(<<>>, "", "task", "", <<"t">>)
        ELSE Ticket(<<>>, "", "task", "", <<"d">>)]

\* runInteractiveRM up to the start of the list, over a directory that is
\* not empty
InitRmList ==
    /\ input = <<>>
    /\ calls = <<>>
    /\ \E present \in SUBSET DOMAIN RmFiles :
           /\ present # {}
           /\ localDir = [f \in present |-> RmFiles[f]]
    /\ cacheDir = <<>>
    /\ jira = Server(<<>>, 0)
    /\ pending = {}
    /\ outcome = {}
    /\ runs = 0
    /\ rmModel \in newRMModel(localDir)

\* a key is pressed; pending holds the files of the items that the user
\* has toggled on, each time the one under the cursor
PressKey ==
    /\ ~rmModel.quit
    /\ runs < MaxKeys
    /\ runs' = runs + 1
    /\ \E msg \in Keys :
           /\ rmModel' = Update(rmModel, msg)
           /\ pending' =
                IF msg = "tab" /\ rmModel.cursor < Len(rmModel.filteredItems)
                THEN (IF rmModel.filteredItems[rmModel.cursor + 1].filePath \in pending
                      THEN pending \ {rmModel.filteredItems[rmModel.cursor + 1].filePath}
                      ELSE pending \cup {rmModel.filteredItems[rmModel.cursor + 1].filePath})
                ELSE pending
    /\ UNCHANGED <<input, calls, localDir, cacheDir, jira, outcome>>

\* runInteractiveRM after the list is closed: nothing when it was
\* cancelled, else the selected tickets are deleted in the order of the list
DeleteSelected ==
    /\ rmModel.quit
    /\ ~rmModel.cancelled
    /\ outcome = {}
    /\ SelectedTickets(rmModel) # {}
    /\ \E items \in Listings(SelectedTickets(rmModel)) :
           /\ \A a, b \in DOMAIN items :
                  a < b => \E i, j \in DOMAIN rmModel.tickets :
                              /\ i < j
                              /\ rmModel.tickets[i].filePath = items[a]
                              /\ rmModel.tickets[j].filePath = items[b]
           /\ localDir' = deleteAll(localDir, items)
    /\ outcome' = {[FilePath |-> f, result |-> "deleted"] : f \in SelectedTickets(rmModel)}
    /\ UNCHANGED <<input, calls, cacheDir, jira, pending, runs, rmModel>>

NextRmList ==
    \/ PressKey
    \/ DeleteSelected

SpecRmList == InitRmList /\ [][NextRmList]_vars

\* ---------------------------------------------------------------------
\* Properties

ToMarkdown == {k \in 1..Len(calls) : calls[k].fn = "ConvertJiraToMarkdown"}

ToJira == {k \in 1..Len(calls) : calls[k].fn = "ConvertMarkdownToJira"}

Tokenized == {k \in 1..Len(calls) : calls[k].fn = "FromJiraMD"}

\* the fenced block a code block becomes when its body is left alone:
\* the body of {code} is trimmed, the body of {noformat} is kept whole
Fenced(tag, body) ==
    IF tag.open = NoFormatTag
    THEN Fence \o NL \o NL \o body \o NL \o NL \o Fence
    ELSE Fence \o tag.lang \o NL \o TrimSpace(NL \o body \o NL) \o NL \o Fence

\* C1: ConvertJiraToMarkdown carries the body of every {code}, {code:lang}
\* and {noformat} block into the fenced block unchanged; no later pass
\* rewrites the markup characters inside it.
C1_CodeBodyUnchanged ==
    \A k \in ToMarkdown : \A tag \in CodeTags : \A body \in Bodies :
        calls[k].arg = Block(tag, body) => calls[k].ret = Fenced(tag, body)

\* C2: Parse returns without a runtime panic for every input string.
C2_ParseNeverPanics == \A k \in Tokenized : ~calls[k].panic

\* plain text before or after an element
Around == {<<>>, <<"a">>, <<" ">>}

WikiLink == <<"[", "a", "|", "b", "]">>

MarkdownLink == <<"[", "a", "]", "(", "b", ")">>

\* C3: a wiki link [text|url] in the input of ConvertJiraToMarkdown is
\* replaced by exactly [text](url) in the output.
C3_LinkConverted ==
    \A k \in ToMarkdown : \A pre \in Around : \A post \in Around :
        calls[k].arg = pre \o WikiLink \o post
            => calls[k].ret = pre \o MarkdownLink \o post

\* the text of a list item: it starts with a word
ItemTexts == {t \in Texts({<<"a">>, <<" ">>}, 2) : t # <<>> /\ t[1] = "a"}

\* C4: ConvertJiraToMarkdown turns a line starting with the ordered-list
\* marker "# " into a "1. " item.
C4_OrderedListItem ==
    \A k \in ToMarkdown : \A t \in ItemTexts :
        calls[k].arg = <<"#", " ">> \o t => calls[k].ret = <<"1", ".", " ">> \o t

\* C5: a strikethrough span -text- that is not a list marker is replaced
\* by ~~text~~ in the final output of ConvertJiraToMarkdown.
C5_StrikethroughConverted ==
    \A k \in ToMarkdown : \A pre \in Around : \A post \in Around :
        calls[k].arg = pre \o <<"-", "a", "-">> \o post
            => calls[k].ret = pre \o <<"~", "~", "a", "~", "~">> \o post

\* text of words, blanks and line feeds only
PlainText(x) == \A i \in DOMAIN x : x[i] \in {"a", " ", "\n"}

\* C6: for markup-free text x, Parse returns x: every line in order, lines
\* still separated by a line break, no character dropped.  The line break
\* the converter ends its output with is not held against it.
C6_ParseIdentityOnPlainText ==
    \A k \in Tokenized :
        PlainText(calls[k].arg)
            => /\ ~calls[k].panic
               /\ calls[k].ret \in {calls[k].arg, calls[k].arg \o NL}
\* the bytes the wiki-to-Markdown passes treat as markup
MetaBytes == {"*", "_", "+", "-", "{", "}", "[", "]", "|", "^", "~", "#"}

LineBreak(c) == c \in {"\n", "\r"}

\* a heading tag hN. or a quote tag bq. at position i
TagAt(x, i) ==
    /\ i + 2 <= Len(x)
    /\ x[i + 2] = "."
    /\ \/ x[i] = "h" /\ ReDigit(x[i + 1])
       \/ x[i] = "b" /\ x[i + 1] = "q"

\* no markup byte, and no line that begins with a heading or quote tag
MarkupFree(x) ==
    \A i \in DOMAIN x :
        /\ x[i] \notin MetaBytes
        /\ (i = 1 \/ LineBreak(x[i - 1])) => ~TagAt(x, i)

\* x with every line ending CR LF or CR written as LF
RECURSIVE LfOnly(_)
LfOnly(x) ==
    IF x = <<>> THEN <<>>
    ELSE IF x[1] # "\r" THEN <<x[1]>> \o LfOnly(Tail(x))
    ELSE IF Len(x) >= 2 /\ x[2] = "\n" THEN NL \o LfOnly(SubSeq(x, 3, Len(x)))
    ELSE NL \o LfOnly(Tail(x))

\* C7, as stated: for every text x without wiki-markup metacharacters,
\* ConvertJiraToMarkdown(x) = x.
C7_IdentityOnMarkupFree ==
    \A k \in ToMarkdown : MarkupFree(calls[k].arg) => calls[k].ret = calls[k].arg

\* C7, amended: for every text x without wiki-markup metacharacters,
\* ConvertJiraToMarkdown(x) is x with its line endings CR LF and CR written
\* as LF, and so x itself when x holds no carriage return.
C7_IdentityUpToLineEndings ==
    \A k \in ToMarkdown : MarkupFree(calls[k].arg) => calls[k].ret = LfOnly(calls[k].arg)

\* a markup-free text with a blank, a carriage return and a heading tag
\* inside a line has been converted
C7_MarkupFreeConverted ==
    \E k \in ToMarkdown :
        /\ MarkupFree(calls[k].arg)
        /\ Contains(calls[k].arg, <<"\r">>)
        /\ Contains(calls[k].arg, <<" ">>)
        /\ Contains(calls[k].arg, <<"h", "1", ".">>)
        /\ calls[k].ret # calls[k].arg

\* the bytes only wiki markup uses
WikiOnly == {"{", "}", "|", "+", "^", "~", "_", "\r"}

\* Markdown with no wiki markup left: no wiki-only byte, and no asterisk
\* outside a ** pair
CleanMarkdown(m) ==
    \A i \in DOMAIN m :
        /\ m[i] \notin WikiOnly
        /\ m[i] = "*" => \/ i > 1 /\ m[i - 1] = "*"
                         \/ i < Len(m) /\ m[i + 1] = "*"

\* C8: ConvertJiraToMarkdown leaves clean Markdown produced by a previous
\* conversion as it is: Convert(Convert(s)) = Convert(s).
C8_IdempotentOnCleanMarkdown ==
    \A j \in ToMarkdown : \A k \in ToMarkdown :
        (calls[k].arg = calls[j].ret /\ CleanMarkdown(calls[k].arg))
            => calls[k].ret = calls[k].arg

\* C9: two calls of ConvertJiraToMarkdown with the same input return the
\* same output, whatever the order in which the heading patterns apply.
C9_SameInputSameOutput ==
    \A j \in ToMarkdown : \A k \in ToMarkdown :
        calls[j].arg = calls[k].arg => calls[j].ret = calls[k].ret

\* a code body of words and blanks that trimming leaves alone
PlainBody(body) ==
    /\ body # <<>>
    /\ \A i \in DOMAIN body : body[i] \in {"a", " "}
    /\ TrimSpace(body) = body

\* C10: ConvertJiraToMarkdown maps {code:L}, body, {code} on three lines to
\* a fenced block tagged L, and ConvertMarkdownToJira maps that fenced block
\* back to the same three lines.
C10_CodeLanguageRoundTrip ==
    \A j \in ToMarkdown : \A tag \in CodeTags : \A body \in Bodies :
        (tag.lang # <<>> /\ PlainBody(body) /\ calls[j].arg = Block(tag, body))
            => /\ calls[j].ret = Fence \o tag.lang \o NL \o body \o NL \o Fence
               /\ \A k \in ToJira :
                      calls[k].arg = calls[j].ret => calls[k].ret = calls[j].arg

\* C11: ConvertMarkdownToJira writes Markdown strong emphasis **text** as
\* wiki bold *text* in its final output.
C11_StrongBecomesBold ==
    \A k \in ToJira : \A pre \in Around : \A post \in Around :
        calls[k].arg = pre \o <<"*", "*", "a", "*", "*">> \o post
            => calls[k].ret = pre \o <<"*", "a", "*">> \o post

\* the nesting levels of the items of a list, one list per sequence: the
\* first item is not nested, and an item is nested at most one level
\* deeper than the item before it
ItemLevels ==
    {levels \in UNION {[1..n -> 1..3] : n \in 1..3} :
        /\ levels[1] = 1
        /\ \A k \in 2..Len(levels) : levels[k] <= levels[k - 1] + 1}

RECURSIVE Repeat(_, _)
Repeat(x, n) == IF n = 0 THEN <<>> ELSE x \o Repeat(x, n - 1)

\* the Markdown list whose k-th item is nested levels[k] deep
MarkdownList(levels) ==
    Join([k \in 1..Len(levels) |-> Repeat(<<" ", " ">>, levels[k] - 1) \o <<"-", " ", "a">>], NL)

\* the wiki list with one marker per nesting level
WikiList(levels) ==
    Join([k \in 1..Len(levels) |-> Repeat(<<"*">>, levels[k]) \o <<" ", "a">>], NL)

\* C12: ConvertMarkdownToJira writes every Markdown list item as a wiki
\* list line whose marker is repeated once per nesting level, one line per
\* item.
C12_ListMarkersPerLevel ==
    \A k \in ToJira : \A levels \in ItemLevels :
        calls[k].arg = MarkdownList(levels) => calls[k].ret = WikiList(levels)

\* a list item that begins with a bold span
BoldItem == <<"*", " ", "*", "a", "*">>

\* C13: for an input line "* *W* rest", an unordered list item that begins
\* with a bold span, ConvertJiraToMarkdown gives "- **W** rest": the list
\* marker is not taken for the opening of a bold span.
C13_BoldAfterListMarker ==
    \A k \in ToMarkdown :
        (HasPrefix(calls[k].arg, BoldItem) /\ PlainText(From(calls[k].arg, Len(BoldItem) + 1)))
            => calls[k].ret = <<"-", " ", "*", "*", "a", "*", "*">>
                                \o From(calls[k].arg, Len(BoldItem) + 1)

\* the item "* *a* a" has been converted
C13_BoldItemConverted ==
    \E k \in ToMarkdown :
        /\ calls[k].arg = BoldItem \o <<" ", "a">>
        /\ calls[k].ret = <<"-", " ", "*", "*", "a", "*", "*", " ", "a">>

\* the line is a heading tag hN. with N in 1..6 at position 1, one blank
\* and a text that starts with a word
HeadingLine(line, n) ==
    /\ HasPrefix(line, <<"h", DigitOf(n), ".", " ">>)
    /\ Len(line) >= 5
    /\ line[5] = "a"

\* C14: heading conversion in ConvertJiraToMarkdown is line-anchored: a
\* line "hN. text" becomes N "#", one blank and the text; a line that does
\* not start with hN. is not changed; no line is added, dropped or merged.
\* Stated for texts with line feeds only and without blank lines.
C14_HeadingsLineAnchored ==
    \A k \in ToMarkdown :
        LET in == Split(calls[k].arg, NL)
            out == Split(calls[k].ret, NL)
        IN  (/\ ~Contains(calls[k].arg, <<"\r">>)
             /\ \A j \in 1..Len(in) : TrimSpace(in[j]) # <<>>) =>
                /\ Len(out) = Len(in)
                /\ \A j \in 1..Len(in) :
                       /\ ~TagAt(in[j], 1) => out[j] = in[j]
                       /\ \A n \in 1..HeadingLevels :
                              HeadingLine(in[j], n)
                                  => out[j] = Hashes(n) \o <<" ">> \o From(in[j], 5)

\* a header row of the wiki markup: a line between double bars
HeaderRow(line) == HasPrefix(line, <<"|", "|">>) /\ HasSuffix(line, <<"|", "|">>)

\* a table row of the wiki markup: a line between bars
TableRowLine(line) == HasPrefix(line, <<"|">>) /\ HasSuffix(line, <<"|">>)

\* line j is preceded by an unbroken run of table rows back to a header row
InTable(lines, j) ==
    \E h \in 1..(j - 1) :
        /\ HeaderRow(lines[h])
        /\ \A i \in (h + 1)..(j - 1) : TableRowLine(lines[i])

\* the Markdown rows the lines of TableLines stand for
MarkdownRows(line) ==
    CASE line = <<"|", "|", "A", "|", "|", "B", "|", "|">> ->
           << <<"|", " ", "A", " ", "|", " ", "B", " ", "|">>,
              <<"|", " ", "-", "-", "-", " ", "|", " ", "-", "-", "-", " ", "|">> >>
      [] line = <<"|", "|", "A", "|", "|">> ->
           << <<"|", " ", "A", " ", "|">>, <<"|", " ", "-", "-", "-", " ", "|">> >>
      [] line = <<"|", "1", "|", "2", "|">> ->
           << <<"|", " ", "1", " ", "|", " ", "2", " ", "|">> >>
      [] line = <<"|", "1", "|">> -> << <<"|", " ", "1", " ", "|">> >>
      [] OTHER -> <<line>>

\* the lines of the Markdown document that the wiki lines from j on become
RECURSIVE MarkdownLines(_, _)
MarkdownLines(lines, j) ==
    IF j > Len(lines) THEN <<>>
    ELSE (IF HeaderRow(lines[j]) \/ InTable(lines, j)
          THEN MarkdownRows(lines[j]) ELSE <<lines[j]>>)
           \o MarkdownLines(lines, j + 1)

\* C15: a header row of n cells becomes the Markdown header row and one
\* separator row of n cells "---", the data rows that follow it become
\* Markdown rows, and a row between bars that no unbroken run of table rows
\* joins to a header row is returned as it is
C15_TablesConverted ==
    \A k \in ToMarkdown :
        LET lines == Split(calls[k].arg, NL)
        IN  (\A j \in 1..Len(lines) : lines[j] \in TableLines) =>
                calls[k].ret = Join(MarkdownLines(lines, 1), NL)

\* a data row before any header row has been returned as it is, and the
\* table of two columns and one data row after it has been converted
C15_TableAndLoneRowConverted ==
    \E k \in ToMarkdown :
        /\ calls[k].arg = <<"|", "1", "|", "2", "|", "\n",
                            "|", "|", "A", "|", "|", "B", "|", "|", "\n",
                            "|", "1", "|", "2", "|">>
        /\ calls[k].ret = <<"|", "1", "|", "2", "|", "\n",
                            "|", " ", "A", " ", "|", " ", "B", " ", "|", "\n",
                            "|", " ", "-", "-", "-", " ", "|", " ", "-", "-", "-", " ", "|", "\n",
                            "|", " ", "1", " ", "|", " ", "2", " ", "|">>

\* the text has one brace pair only, that of the tag
OnlyTag(x, tag) ==
    /\ Contains(x, tag)
    /\ Cardinality({i \in 1..Len(x) : x[i] = "{"}) = 1

\* C16: ConvertJiraToMarkdown returns a text for every text, and a tag
\* {code}, {noformat}, {panel} or {quote} that no closing tag follows is in
\* the text returned, as it was written
C16_UnmatchedTagKept ==
    \A k \in ToMarkdown :
        /\ ~calls[k].panic
        /\ \A tag \in BlockTags :
               OnlyTag(calls[k].arg, tag) => Contains(calls[k].ret, tag)

\* C17: each of the four entry points, ConvertJiraToMarkdown,
\* ConvertMarkdownToJira, ToJiraMD and FromJiraMD, returns the empty text
\* for the empty text
C17_EmptyToEmpty ==
    \A k \in 1..Len(calls) :
        calls[k].arg = <<>> => ~calls[k].panic /\ calls[k].ret = <<>>

\* C18: once a goroutine of push has reported an existing ticket updated,
\* the cache holds the ticket as the server has it, and CompareDirs on the
\* file, which nobody has touched, finds no difference, whatever was
\* edited: title, type or parentKey
C18_NoDiffAfterUpdate ==
    \A o \in outcome :
        o.result = "updated" =>
            /\ o.FilePath \in DOMAIN cacheDir
            /\ localDir[o.FilePath].Key \in DOMAIN jira.issues
            /\ cacheDir[o.FilePath] =
                   convert(localDir[o.FilePath].Key, jira.issues[localDir[o.FilePath].Key])
            /\ \A d \in CompareDirs(localDir, cacheDir) :
                   d.FilePath = o.FilePath => ~d.HasDiff

\* the tickets are the same in title, type and parentKey
SameWritable(t, other) ==
    /\ t.Title = other.Title
    /\ t.Type = other.Type
    /\ t.ParentKey = other.ParentKey

\* no result of CompareDirs has a difference for a file whose ticket
\* differs from the cached one in read-only attributes alone
ReadonlyNotCompared ==
    \A d \in CompareDirs(localDir, cacheDir) :
        (/\ d.FilePath \in DOMAIN cacheDir
         /\ SameWritable(localDir[d.FilePath], cacheDir[d.FilePath]))
            => ~d.HasDiff

\* no step of push changes the status of an issue that the server keeps
ReadonlyNotWritten ==
    \A k \in DOMAIN jira.issues \cap DOMAIN jira'.issues :
        jira'.issues[k].Status = jira.issues[k].Status

\* C19: the attributes other than body, title, type and parentKey are not
\* compared, so tickets that differ in them alone have HasDiff false, and
\* are not written, so no push changes the status of an issue in JIRA
C19_ReadonlyUntouched == []ReadonlyNotCompared /\ [][ReadonlyNotWritten]_vars

\* the deletion markers of the work directory
Markers(local) == {f \in DOMAIN local : f.dot}

\* a step that removes a marker, or the cache file of a marked ticket,
\* deletes the issue of that ticket on the server
RemovedWithIssue ==
    /\ \A f \in Markers(localDir) \ DOMAIN localDir' :
           localDir[f].Key \in DOMAIN jira.issues \ DOMAIN jira'.issues
    /\ \A f \in Markers(localDir) :
           Name(FALSE, f.base) \in DOMAIN cacheDir \ DOMAIN cacheDir'
               => localDir[f].Key \in DOMAIN jira.issues \ DOMAIN jira'.issues

\* the next run of push finds a difference for every marker there is
MarkersFound ==
    \A f \in Markers(localDir) : \E d \in Changed(localDir, cacheDir) : d.FilePath = f

\* C20: push removes a deletion marker, and the cache file of its ticket,
\* only in the step in which DeleteIssue deleted the issue; after a
\* deletion that failed the marker is still there, and the next run finds
\* it and tries again
C20_MarkerRemovedOnlyAfterDelete == []MarkersFound /\ [][RemovedWithIssue]_vars

\* a deletion failed and its marker is still in the work directory, with
\* the issue still on the server
C20_MarkerKeptAfterFailure ==
    \E o \in outcome :
        /\ o.result = "failed"
        /\ o.FilePath \in Markers(localDir)
        /\ localDir[o.FilePath].Key \in DOMAIN jira.issues

\* a key of the form of PRJ-123: letters, one hyphen, digits
PublishedKey(key) ==
    \E h \in 2..(Len(key) - 1) :
        /\ key[h] = "-"
        /\ \A i \in 1..(h - 1) : key[i] \in AsciiLetters
        /\ \A i \in (h + 1)..Len(key) : key[i] \in DigitClass

\* a step of rm takes a file of the work directory away only by renaming
\* the file of a ticket with a valid key to .<KEY>.md, with its content,
\* or by removing the file of a ticket without a valid key
MarkedNotRemoved ==
    \A f \in {g \in DOMAIN localDir : ~g.dot} :
        /\ (f \notin DOMAIN localDir' /\ PublishedKey(localDir[f].Key)) =>
              /\ Name(TRUE, localDir[f].Key) \in DOMAIN localDir'
              /\ localDir'[Name(TRUE, localDir[f].Key)] = localDir[f]
        /\ (\A g \in DOMAIN localDir' : localDir'[g] # localDir[f]) =>
              ~PublishedKey(localDir[f].Key)
        /\ f \in DOMAIN localDir' => localDir'[f] = localDir[f]

Formatted == {k \in 1..Len(calls) : calls[k].fn = "format"}

\* the end of the first line --- after the first line of x, 0 without one
ClosingEnd(x) ==
    LET lines == Split(x, NL)
        ends == {i \in 2..Len(lines) : lines[i] = Dashes}
    IN  IF lines[1] # Dashes \/ ends = {} THEN 0
        ELSE Len(Join(SubSeq(lines, 1, Min(ends)), NL))

\* C22: for a text whose first line is --- and that has a later line ---,
\* what format returns begins with the text up to the end of that line,
\* byte for byte, and only the text after the line is given to ToJiraMD
C22_FrontMatterKept ==
    \A k \in Formatted :
        ClosingEnd(calls[k].arg) # 0 =>
            /\ ~calls[k].panic
            /\ HasPrefix(calls[k].ret, SubSeq(calls[k].arg, 1, ClosingEnd(calls[k].arg)))
            /\ \A j \in 1..Len(calls) :
                   calls[j].fn = "ToJiraMD" =>
                       calls[j].arg \in {From(calls[k].arg, ClosingEnd(calls[k].arg) + 1),
                                         From(calls[k].arg, ClosingEnd(calls[k].arg) + 2)}

\* C23: getCacheDir returns one directory for equal (work directory,
\* server, JQL) triples, two directories for two triples that differ, and
\* always a path under $HOME/.cache/tkt
C23_CacheDirPerProject ==
    \A j, k \in 1..Len(calls) :
        (calls[j].fn = "getCacheDir" /\ calls[k].fn = "getCacheDir") =>
            /\ (calls[j].arg = calls[k].arg) <=> (calls[j].ret = calls[k].ret)
            /\ Len(calls[j].ret) = 4
            /\ SubSeq(calls[j].ret, 1, 3) = <<"$HOME", ".cache", "tkt">>

\* words with dashes between blanks, no other markup: "a - a", "a - a - a"
DashedWords(x) ==
    /\ Len(x) >= 5
    /\ \A i \in DOMAIN x : x[i] \in {"a", " ", "-"}
    /\ \A i \in DOMAIN x : x[i] = "-" => (i > 1 /\ i < Len(x) /\ x[i - 1] = " " /\ x[i + 1] = " ")
    /\ \E i \in DOMAIN x : x[i] = "-"

\* C24: a wiki list item "* text" whose text has a dash between blanks in
\* it, as "* a - a", is output as "- text": the strikethrough substitution
\* does not take the bullet that list conversion wrote for an opening dash.
C24_BulletNotStruck ==
    \A k \in ToMarkdown :
        (HasPrefix(calls[k].arg, <<"*", " ">>) /\ DashedWords(From(calls[k].arg, 3)))
            => calls[k].ret = <<"-", " ">> \o From(calls[k].arg, 3)

\* n bold spans *a* with one blank between each two
BoldSpans(n) == Join([i \in 1..n |-> <<"*", "a", "*">>], <<" ">>)

\* C25: every bold span of a line is converted by ConvertJiraToMarkdown,
\* also when several follow each other: "*a* *a*" becomes "**a** **a**".
C25_EveryBoldSpanConverted ==
    \A k \in ToMarkdown : \A n \in 1..MaxItemFrags :
        calls[k].arg = BoldSpans(n)
            => calls[k].ret = Join([i \in 1..n |-> <<"*", "*", "a", "*", "*">>], <<" ">>)

\* the line "*a* a": a bold span and a word after it
SpanAndWord == <<"*", "a", "*", " ", "a">>

\* C26: the indices of the tokens of tokenize are positions in the line
\* that secondPass iterates over: a span after leading blanks is replaced
\* at its own characters, "*a* a" after n blanks gives "**a** a" (after
\* the blanks, or without them), no character dropped or written twice.
C26_TokensAtTheirRunes ==
    \A k \in Tokenized : \A n \in 0..MaxParseLen :
        calls[k].arg = Repeat(<<" ">>, n) \o SpanAndWord
            => /\ ~calls[k].panic
               /\ calls[k].ret \in
                      { Repeat(<<" ">>, n) \o <<"*", "*", "a", "*", "*", " ", "a", "\n">>,
                        <<"*", "*", "a", "*", "*", " ", "a", "\n">> }

\* the calls of CreateIssue that returned a ticket
Created == {k \in 1..Len(calls) : calls[k].fn = "CreateIssue" /\ ~calls[k].err}

\* C27: over the runs of push, CreateIssue succeeds at most once for one
\* local file without a key, whatever file-system call fails after it.
C27_OneIssuePerFile ==
    \A j, k \in Created : calls[j].arg = calls[k].arg => j = k

\* C28: when a last-fetch time is stored, every issue whose last update on
\* the server is older than it is in the cache as the server has it: a run
\* stores its time only after every ticket of the query has been written.
C28_NothingOlderMissing ==
    GetLastFetchTime(cacheDir) # 0 =>
        \A k \in DOMAIN jira.issues :
            jira.updated[k] < GetLastFetchTime(cacheDir) =>
                /\ Name(FALSE, k) \in DOMAIN cacheDir
                /\ cacheDir[Name(FALSE, k)] = convert(k, jira.issues[k])

\* C29: FromFile of the file that t.SaveToFile wrote gives t back: the same
\* Key, Title, Type and ParentKey and exactly the same Body.
C29_SaveThenLoadIsLossless ==
    \A j, k \in 1..Len(calls) :
        (calls[j].fn = "SaveToFile" /\ calls[k].fn = "FromFile" /\ calls[k].arg = calls[j].ret)
            => /\ ~calls[k].panic
               /\ calls[k].ret.Key = calls[j].arg.Key
               /\ calls[k].ret.Title = calls[j].arg.Title
               /\ calls[k].ret.Type = calls[j].arg.Type
               /\ calls[k].ret.ParentKey = calls[j].arg.ParentKey
               /\ calls[k].ret.Body = calls[j].arg.Body

\* C30: when the list of rm is closed with Enter, the tickets that
\* SelectedTickets returns, and that are deleted, are those the user has
\* toggled on with Tab, each time the item under the cursor, also with
\* several tickets shown as DRAFT; after Esc or Ctrl+C nothing is deleted.
C30_SelectedAreTheToggled ==
    /\ (rmModel.quit /\ ~rmModel.cancelled) => SelectedTickets(rmModel) = pending
    /\ rmModel.cancelled => outcome = {}
    /\ \A d \in outcome : d.FilePath \in pending
====
